---- MODULE Spec2Model ----
(***************************************************************************)
(* Model of zerver/lib/rate_limiter.py: the sliding-window rate limiter    *)
(* kept in a shared Redis store (RedisRateLimiterBackend) and the entity   *)
(* layer above it (RateLimitedObject).                                     *)
(*                                                                         *)
(* Time is the wall clock sampled at whole seconds.  time.time() returns   *)
(* the current value of `now`; two reads may return the same value.  The   *)
(* Redis server uses the same clock: a key with expiry e is still there at *)
(* now = e and is gone once now > e, and TTL replies e - now.              *)
(*                                                                         *)
(* Every round trip to the store is one step.  A pipeline opened with      *)
(* client.pipeline() is a MULTI/EXEC transaction and so is one step; the   *)
(* clock read next to it is taken in the same step.  Inside                *)
(* incr_ratelimit, WATCH and the immediate LINDEX that follows it are one  *)
(* step: a write that falls between the two aborts the EXEC exactly as a   *)
(* write that falls after the LINDEX.                                      *)
(*                                                                         *)
(* Timestamps travel through Redis as repr(float) and come back through    *)
(* float(); that round trip is exact, so a timestamp is its clock value.   *)
(* A reply that may be None is a sequence of length 0 or 1.                *)
(***************************************************************************)
EXTENDS Integers, Sequences, FiniteSets, TLC

\* ----------------------------------------------------------------- bounds
\* The clock of Spec and of ConcSpec stops here.
MaxTime == 5
ConcMaxTime == 2
\* block_access is called with 1..MaxBlockSeconds seconds.
MaxBlockSeconds == 2
\* The clock of ReqSpec stops here; a request carries at most MaxApplied
\* results.
ReqMaxTime == 3
MaxApplied == 2
\* The override strings of OverrideSpec: at most MaxOverrideLen characters
\* of digits, colons and commas, or at most MaxGarbageLen characters with
\* letters among them; MalformedSpec has the latter and records at most
\* MaxRecorded calls for an entity.
MaxOverrideLen == 7
MaxGarbageLen == 3
MaxRecorded == 2
\* add_ratelimit_rule is called while the domain holds fewer rules than this,
\* with a window and a count in 1..MaxRuleArg.
MaxRules == 2
MaxRuleArg == 2
\* KeySpec derives keys for domains of at most MaxDomainLen characters.
MaxDomainLen == 2
EditMaxTime == 3
BackendMaxTime == 3

\* ------------------------------------------------------------ the universe
Procs == {"p1", "p2"}

\* The users (by id) and the domains that entities are made of.
Users == {1, 2}
Domains == {"api_by_user", "email"}

\* RateLimitedUser.key(): "RateLimitedUser:<user id>:<domain>", kept as its
\* three fields.
Key(user_id, domain) == <<"RateLimitedUser", user_id, domain>>
KeyUser(k) == k[2]
KeyDomain(k) == k[3]
Keys == {Key(u, d) : u \in Users, d \in Domains}

\* The caller and the entity key of the sequential specifications.
SeqProc == "p1"
SeqKeys == {Key(1, "api_by_user")}

\* A rule is <<range_seconds, num_requests>>; a rule set is a sequence of
\* rules sorted by range_seconds, as settings.RATE_LIMITING_RULES holds them.
RuleSets ==
    { << <<2, 1>> >>,
      << <<3, 2>> >>,
      << <<2, 2>>, <<4, 3>> >> }

\* The rule table with one domain, 'api_by_user', holding the rule set rs.
Table(rs) == [d \in {"api_by_user"} |-> rs]

Max(a, b) == IF a >= b THEN a ELSE b

\* The largest window of any rule set of the model.
MaxWindow ==
    CHOOSE w \in 0..100 :
        /\ \A rs \in RuleSets : \A i \in 1..Len(rs) : rs[i][1] <= w
        /\ \E rs \in RuleSets : \E i \in 1..Len(rs) : rs[i][1] = w

VARIABLES
    now,        \* the wall clock, in seconds
    list,       \* list[k]: the Redis list of key k, newest first; <<>> = no key
    zset,       \* zset[k]: the members of the sorted set of key k (score = member)
    listExp,    \* listExp[k]: <<e>> when the list expires at e, else <<>>
    zsetExp,    \* zsetExp[k]: the same for the sorted set
    block,      \* block[k]: <<e>> when the block flag exists and expires at e
    rules,      \* the rule table (module-level `rules`): domain -> rule set
    rate_limits,\* rate_limits[u]: the override string of user u, a sequence
                \* of characters; <<>> is ""
    KEY_PREFIX, \* the module-level KEY_PREFIX, a sequence of characters
    reqpc,      \* reqpc[p]: where p stands in rate_limit_request
    applied,    \* applied[p]: request._ratelimits_applied of p's request
    pc,         \* pc[p]: where caller p stands
    loc,        \* loc[p]: the arguments and locals of p's call
    dirty,      \* dirty[p]: p's WATCHed key was written since the WATCH
    ret,        \* ret[p]: what p's last completed call returned
    hist,       \* hist[k]: the timestamps recorded for k since its history was
                \* last cleared, in commit order (not program state; Spec
                \* keeps only those at most MaxWindow old)
    blockedFor, \* blockedFor[k]: <<>> before any block_access on k, <<s>> after
                \* block_access(k, s), <<0>> once unblock_access(k) has removed
                \* the flag (not program state)
    lastCommit, \* lastCommit[k]: <<c>> when the last transaction of
                \* incr_ratelimit on k committed at c, at most MaxWindow ago,
                \* and the history was not cleared since (not program state)
    wiped,      \* wiped[k]: <<w>> when clear_history(k) has begun and no call
                \* was recorded and no block set on k since; w holds the
                \* length of the list and the block flag that clear_history
                \* found (not program state)
    overlapped  \* overlapped[k]: some call of rate_limit_entity on k began
                \* while another caller stood between the check and the
                \* return of its own call on k (not program state; kept by
                \* ConcSpec and ConcLiveSpec)

store == <<list, zset, listExp, zsetExp, block>>
\* What lives in the calling process, above the backend.
upper == <<rules, rate_limits, KEY_PREFIX, reqpc, applied>>
ghost == <<hist, blockedFor, lastCommit, wiped, overlapped>>
vars == <<now, list, zset, listExp, zsetExp, block, rules, rate_limits,
          KEY_PREFIX, reqpc, applied, pc, loc, dirty, ret, hist, blockedFor,
          lastCommit, wiped, overlapped>>

\* ------------------------------------------------------- Redis primitives
\* LINDEX key i: None when out of range; a negative i counts from the tail.
LIndex(l, i) ==
    LET j == IF i >= 0 THEN i + 1 ELSE Len(l) + i + 1
    IN  IF j >= 1 /\ j <= Len(l) THEN <<l[j]>> ELSE <<>>

\* LPUSH key v
LPush(l, v) == <<v>> \o l

\* LTRIM key start stop, both inclusive and 0-indexed; negatives count from
\* the tail.
LTrim(l, start, stop) ==
    LET s == IF start >= 0 THEN start ELSE Max(Len(l) + start, 0)
        e0 == IF stop >= 0 THEN stop ELSE Len(l) + stop
        e == IF e0 >= Len(l) THEN Len(l) - 1 ELSE e0
    IN  IF s > e \/ s >= Len(l) THEN <<>> ELSE SubSeq(l, s + 1, e + 1)

\* Faulty variant of ZCount: the lower end of the range is left out.
ZCountExclusive(z, lo, hi) == Cardinality({t \in z : lo < t /\ t <= hi})

\* ZCOUNT key lo hi: members with lo <= score <= hi.
ZCount(z, lo, hi) == Cardinality({t \in z : lo <= t /\ t <= hi})

\* The expiry EXPIRE key seconds gives a key.
ExpireAt(seconds) == <<now + seconds>>

\* GET blocking_key
GetBlock(k) == IF block[k] = <<>> THEN <<>> ELSE <<1>>

\* TTL blocking_key: -2 when the key does not exist, else the seconds left.
\* The reply is an integer in every case; it is never None.
TTLBlock(k) == IF block[k] = <<>> THEN <<0 - 2>> ELSE <<block[k][1] - now>>

\* ------------------------------------------------------------ entity layer
\* str.split(sep, maxsplit) on a string held as a sequence of characters;
\* maxsplit < 0 is "no limit".  "".split(sep) is [""].
RECURSIVE SplitMax(_, _, _)
SplitMax(s, sep, maxsplit) ==
    IF maxsplit = 0 \/ \A i \in 1..Len(s) : s[i] # sep
    THEN <<s>>
    ELSE LET i == CHOOSE j \in 1..Len(s) :
                      s[j] = sep /\ \A h \in 1..(j - 1) : s[h] # sep
         IN  <<SubSeq(s, 1, i - 1)>> \o
             SplitMax(SubSeq(s, i + 1, Len(s)), sep, maxsplit - 1)

Split(s, sep) == SplitMax(s, sep, 0 - 1)

\* int(s) for a string of decimal digits; any other string of the model's
\* alphabet, the empty one included, makes int() raise ValueError.
DigitValue ==
    ("0" :> 0) @@ ("1" :> 1) @@ ("2" :> 2) @@ ("3" :> 3) @@ ("4" :> 4) @@
    ("5" :> 5) @@ ("6" :> 6) @@ ("7" :> 7) @@ ("8" :> 8) @@ ("9" :> 9)

IsInt(s) == Len(s) > 0 /\ \A i \in 1..Len(s) : s[i] \in DOMAIN DigitValue

RECURSIVE ParseInt(_)
ParseInt(s) ==
    IF s = <<>> THEN 0
    ELSE 10 * ParseInt(SubSeq(s, 1, Len(s) - 1)) + DigitValue[s[Len(s)]]

\* str(n), the decimal numeral of an integer n >= 0.
DigitChar(d) == CHOOSE c \in DOMAIN DigitValue : DigitValue[c] = d

RECURSIVE Numeral(_)
Numeral(n) ==
    IF n < 10 THEN <<DigitChar(n)>>
    ELSE Numeral(n \div 10) \o <<DigitChar(n % 10)>>

\* Lines 110-114: the loop over the limits of the override string.  The
\* first limit that does not unpack into two fields, or whose fields are not
\* integers, raises ValueError.
RECURSIVE ParseLimits(_)
ParseLimits(limits) ==
    IF limits = <<>> THEN [raised |-> "", rules |-> <<>>]
    ELSE LET fields == SplitMax(Head(limits), ":", 2)
         IN  IF Len(fields) # 2 \/ ~IsInt(fields[1]) \/ ~IsInt(fields[2])
             THEN [raised |-> "ValueError", rules |-> <<>>]
             ELSE LET rest == ParseLimits(Tail(limits))
                  IN  IF rest.raised # "" THEN rest
                      ELSE [raised |-> "",
                            rules |-> << <<ParseInt(fields[1]), ParseInt(fields[2])>> >>
                                      \o rest.rules]

\* Faulty variant of ResolveRules: the rules of the override are put in
\* front of the rules of the domain.
ResolveRulesMerged(k) ==
    IF rate_limits[KeyUser(k)] # <<>> /\ KeyDomain(k) = "api_by_user"
    THEN LET r == ParseLimits(Split(rate_limits[KeyUser(k)], ","))
         IN  IF r.raised # "" THEN r
             ELSE [raised |-> "", rules |-> r.rules \o rules[KeyDomain(k)]]
    ELSE IF KeyDomain(k) \in DOMAIN rules
    THEN [raised |-> "", rules |-> rules[KeyDomain(k)]]
    ELSE [raised |-> "KeyError", rules |-> <<>>]

\* Faulty variant of ResolveRules: an override that does not parse is
\* dropped and the rules of the domain are returned.
ResolveRulesFallsBack(k) ==
    LET r == ParseLimits(Split(rate_limits[KeyUser(k)], ","))
    IN  IF rate_limits[KeyUser(k)] # <<>> /\ KeyDomain(k) = "api_by_user"
           /\ r.raised = ""
        THEN r
        ELSE IF KeyDomain(k) \in DOMAIN rules
        THEN [raised |-> "", rules |-> rules[KeyDomain(k)]]
        ELSE [raised |-> "KeyError", rules |-> <<>>]

\* RateLimitedUser.rules(): what it returns, or the exception it raises.
\* rules[self.domain] raises KeyError for a domain the table does not have.
ResolveRules(k) ==
    IF rate_limits[KeyUser(k)] # <<>> /\ KeyDomain(k) = "api_by_user"
    THEN ParseLimits(Split(rate_limits[KeyUser(k)], ","))
    ELSE IF KeyDomain(k) \in DOMAIN rules
    THEN [raised |-> "", rules |-> rules[KeyDomain(k)]]
    ELSE [raised |-> "KeyError", rules |-> <<>>]

\* The rule set rules() returns when it returns.
EntityRules(k) == ResolveRules(k).rules

\* RateLimitedObject.max_api_calls(), max_api_window(): the last rule.
MaxApiCalls(rs) == rs[Len(rs)][2]
MaxApiWindow(rs) == rs[Len(rs)][1]

\* The exception that evaluating key(), rules(), max_api_calls() and
\* max_api_window() raises, "" when there is none: rules()[-1] raises
\* IndexError on an empty rule set.
ResolveError(k) ==
    IF ResolveRules(k).raised # "" THEN ResolveRules(k).raised
    ELSE IF Len(EntityRules(k)) = 0 THEN "IndexError"
    ELSE ""

\* --------------------------------------------------------- keys as strings
\* type(self).__name__ of a RateLimitedUser.
TypeName == <<"R", "a", "t", "e", "L", "i", "m", "i", "t", "e", "d", "U", "s", "e", "r">>

\* Faulty variant of KeyString: the three fields are joined without the
\* colons.
KeyStringUnseparated(user_id, domain) == TypeName \o Numeral(user_id) \o domain

\* RateLimitedUser.key(): "{}:{}:{}".format(type(self).__name__, self.user.id,
\* self.domain), as the string it is.
KeyString(user_id, domain) ==
    TypeName \o <<":">> \o Numeral(user_id) \o <<":">> \o domain

\* The key types of get_keys, in its order.
KeyTypes == << <<"l", "i", "s", "t">>, <<"z", "s", "e", "t">>,
              <<"b", "l", "o", "c", "k">> >>

\* get_keys(entity_key): "{}ratelimit:{}:{}".format(KEY_PREFIX, entity_key,
\* keytype) for the three key types.
GetKeys(prefix, entity_key) ==
    [i \in 1..3 |->
        prefix \o <<"r", "a", "t", "e", "l", "i", "m", "i", "t", ":">> \o
        entity_key \o <<":">> \o KeyTypes[i]]

\* The 0.5 of line 245, reported when the TTL reply is None.
HalfSecond == <<1, 2>>

\* ------------------------------------------------------------ is_ratelimited
\* Faulty variant of FirstTripped: LINDEX at request_count, not request_count - 1.
RECURSIVE FirstTrippedOffByOne(_, _, _)
FirstTrippedOffByOne(l, rs, i) ==
    IF i > Len(rs) THEN 0
    ELSE LET timestamp == LIndex(l, rs[i][2])
         IN  IF timestamp # <<>> /\ timestamp[1] + rs[i][1] >= now
             THEN i
             ELSE FirstTrippedOffByOne(l, rs, i + 1)

\* Faulty variant of FirstTripped: only the last rule, the one with the largest
\* window, is looked at.
FirstTrippedLastOnly(l, rs, i) ==
    LET n == Len(rs)
        timestamp == IF n = 0 THEN <<>> ELSE LIndex(l, rs[n][2] - 1)
    IN  IF timestamp # <<>> /\ timestamp[1] + rs[n][1] >= now THEN n ELSE 0

\* Faulty variant of FirstTripped: a rule denies as long as its nth timestamp
\* is in the list, however old it is.
FirstTrippedIgnoresAge(l, rs, i) ==
    LET tripped == {j \in i..Len(rs) : LIndex(l, rs[j][2] - 1) # <<>>}
    IN  IF tripped = {} THEN 0
        ELSE CHOOSE j \in tripped : \A h \in tripped : j <= h

\* Faulty variant of FirstTripped: of the rules that deny, the last one in
\* rule-set order is reported.
FirstTrippedReportsLast(l, rs, i) ==
    LET tripped == {j \in i..Len(rs) :
                       /\ LIndex(l, rs[j][2] - 1) # <<>>
                       /\ LIndex(l, rs[j][2] - 1)[1] + rs[j][1] >= now}
    IN  IF tripped = {} THEN 0
        ELSE CHOOSE j \in tripped : \A h \in tripped : h <= j

\* The first rule, in rule-set order, whose nth timestamp exists and has
\* timestamp + range_seconds >= now; 0 when there is none.
RECURSIVE FirstTripped(_, _, _)
FirstTripped(l, rs, i) ==
    IF i > Len(rs) THEN 0
    ELSE LET timestamp == LIndex(l, rs[i][2] - 1)
         IN  IF timestamp # <<>> /\ timestamp[1] + rs[i][1] >= now
             THEN i
             ELSE FirstTripped(l, rs, i + 1)

\* is_ratelimited(entity_key, rules): (rate_limited, time_till_free), with the
\* branch that decided it.
IsRatelimited(k, rs) ==
    LET key_blocked == GetBlock(k)
        blocking_ttl_b == TTLBlock(k)
        i == FirstTripped(list[k], rs, 1)
    IN  IF key_blocked # <<>>
        THEN [ratelimited |-> TRUE,
              time |-> IF blocking_ttl_b = <<>> THEN HalfSecond ELSE blocking_ttl_b[1],
              cause |-> "block"]
        ELSE IF Len(rs) = 0 THEN [ratelimited |-> FALSE, time |-> 0, cause |-> "none"]
        ELSE IF i # 0
        THEN [ratelimited |-> TRUE,
              time |-> (LIndex(list[k], rs[i][2] - 1)[1] + rs[i][1]) - now,
              cause |-> "rule"]
        ELSE [ratelimited |-> FALSE, time |-> 0, cause |-> "none"]

\* -------------------------------------------------------- get_api_calls_left
\* Faulty variant of GetApiCallsLeft: every member of the sorted set is counted,
\* whatever its score.
GetApiCallsLeftCountsAll(k, range_seconds, max_calls) ==
    LET count == Cardinality(zset[k])
        newest_call == LIndex(list[k], 0)
        calls_left == max_calls - count
        time_reset == IF newest_call # <<>>
                      THEN now + (range_seconds - (now - newest_call[1]))
                      ELSE now
    IN  <<calls_left, time_reset - now>>

\* Faulty variant of GetApiCallsLeft: the reset time is taken from the oldest
\* element of the list, not the newest.
GetApiCallsLeftFromOldest(k, range_seconds, max_calls) ==
    LET boundary == now - range_seconds
        count == ZCount(zset[k], boundary, now)
        oldest_call == LIndex(list[k], 0 - 1)
        calls_left == max_calls - count
        time_reset == IF oldest_call # <<>>
                      THEN now + (range_seconds - (now - oldest_call[1]))
                      ELSE now
    IN  <<calls_left, time_reset - now>>

\* get_api_calls_left(entity_key, range_seconds, max_calls):
\* <<calls_left, time_reset - now>>
GetApiCallsLeft(k, range_seconds, max_calls) ==
    LET boundary == now - range_seconds
        count == ZCount(zset[k], boundary, now)
        newest_call == LIndex(list[k], 0)
        calls_left == max_calls - count
        time_reset == IF newest_call # <<>>
                      THEN now + (range_seconds - (now - newest_call[1]))
                      ELSE now
    IN  <<calls_left, time_reset - now>>

\* ------------------------------------------------------------------- state
NoRet == [op |-> "none"]
NoLoc == [key |-> <<>>]
NoReq == [at |-> "none"]

\* A store with no keys, callers at rest.
Fresh ==
    /\ now = 0
    /\ list = [k \in Keys |-> <<>>]
    /\ zset = [k \in Keys |-> {}]
    /\ listExp = [k \in Keys |-> <<>>]
    /\ zsetExp = [k \in Keys |-> <<>>]
    /\ block = [k \in Keys |-> <<>>]
    /\ KEY_PREFIX = <<>>
    /\ pc = [p \in Procs |-> "idle"]
    /\ loc = [p \in Procs |-> NoLoc]
    /\ dirty = [p \in Procs |-> FALSE]
    /\ ret = [p \in Procs |-> NoRet]
    /\ reqpc = [p \in Procs |-> NoReq]
    /\ applied = [p \in Procs |-> <<>>]
    /\ hist = [k \in Keys |-> <<>>]
    /\ blockedFor = [k \in Keys |-> <<>>]
    /\ lastCommit = [k \in Keys |-> <<>>]
    /\ wiped = [k \in Keys |-> <<>>]
    /\ overlapped = [k \in Keys |-> FALSE]

\* No user has an override.
NoOverride == rate_limits = [u \in Users |-> <<>>]

Init == Fresh /\ NoOverride /\ rules \in {Table(rs) : rs \in RuleSets}

\* The callers whose WATCH on the list of k is open.
Watchers(k) == {q \in Procs : pc[q] = "exec" /\ loc[q].key = k}

\* ------------------------------------------------------- rules, rate_limit
\* entity.rules() is called on its own.
Rules(p, k) ==
    /\ pc[p] = "idle"
    /\ ret' = [ret EXCEPT ![p] =
           [op |-> "rules", key |-> k, raised |-> ResolveRules(k).raised,
            rules |-> ResolveRules(k).rules]]
    /\ UNCHANGED <<now, list, zset, listExp, zsetExp, block, upper, pc, loc, dirty>>

\* rate_limit(), lines 40-42, when evaluating the arguments of
\* rate_limit_entity raises: the backend is not called.
RateLimitRaises(p, k) ==
    /\ pc[p] = "idle"
    /\ ResolveError(k) # ""
    /\ ret' = [ret EXCEPT ![p] =
           [op |-> "rate_limit", key |-> k, raised |-> ResolveError(k)]]
    /\ UNCHANGED <<now, list, zset, listExp, zsetExp, block, upper, pc, loc, dirty>>

\* ------------------------------------------------------- key(), get_keys
\* bounce_redis_key_prefix_for_testing(test_name) in a process with id pid.
BounceRedisKeyPrefixForTesting(p, test_name, pid) ==
    /\ pc[p] = "idle"
    /\ KEY_PREFIX' = test_name \o <<":">> \o Numeral(pid) \o <<":">>
    /\ ret' = [ret EXCEPT ![p] = [op |-> "bounce_redis_key_prefix_for_testing"]]
    /\ UNCHANGED <<now, list, zset, listExp, zsetExp, block, rules, rate_limits,
                   reqpc, applied, pc, loc, dirty>>

\* RateLimitedUser(user, domain).key() for a user with the id user_id.
KeyCall(p, user_id, domain) ==
    /\ pc[p] = "idle"
    /\ ret' = [ret EXCEPT ![p] =
           [op |-> "key", user_id |-> user_id, domain |-> domain,
            key |-> KeyString(user_id, domain)]]
    /\ UNCHANGED <<now, list, zset, listExp, zsetExp, block, upper, pc, loc, dirty>>

\* RedisRateLimiterBackend.get_keys(entity_key), with the KEY_PREFIX it read.
GetKeysCall(p, entity_key) ==
    /\ pc[p] = "idle"
    /\ ret' = [ret EXCEPT ![p] =
           [op |-> "get_keys", entity_key |-> entity_key, prefix |-> KEY_PREFIX,
            keys |-> GetKeys(KEY_PREFIX, entity_key)]]
    /\ UNCHANGED <<now, list, zset, listExp, zsetExp, block, upper, pc, loc, dirty>>

\* ------------------------------------------------------- rate_limit_entity
\* Faulty variant of RateLimitEntity: the call is recorded before it is checked, so
\* a denied call leaves its timestamp in the list.
RateLimitEntityRecordsFirst(p, k) ==
    /\ pc[p] = "idle"
    /\ ResolveError(k) = ""
    /\ LET rs == EntityRules(k)
           r == IsRatelimited(k, rs)
       IN  IF r.ratelimited
           THEN /\ ret' = [ret EXCEPT ![p] =
                      [op |-> "rate_limit_entity", key |-> k, ratelimited |-> TRUE,
                       time |-> r.time, cause |-> r.cause, at |-> now, statsd |-> 1]]
                /\ list' = [list EXCEPT ![k] = LPush(@, now)]
                /\ UNCHANGED <<pc, loc>>
           ELSE /\ pc' = [pc EXCEPT ![p] = "incr"]
                /\ loc' = [loc EXCEPT ![p] =
                      [key |-> k, rules |-> rs,
                       max_api_calls |-> MaxApiCalls(rs),
                       max_api_window |-> MaxApiWindow(rs),
                       time |-> r.time, at |-> now,
                       tnow |-> 0, last_val |-> <<>>, count |-> 0]]
                /\ ret' = [ret EXCEPT ![p] = NoRet]
                /\ UNCHANGED list
    /\ UNCHANGED <<now, zset, listExp, zsetExp, block, upper, dirty>>

\* rate_limit_entity up to the end of is_ratelimited: a denial returns at
\* once, with one statsd counter event; otherwise incr_ratelimit follows.
RateLimitEntity(p, k) ==
    /\ pc[p] = "idle"
    /\ ResolveError(k) = ""
    /\ LET rs == EntityRules(k)
           r == IsRatelimited(k, rs)
       IN  IF r.ratelimited
           THEN /\ ret' = [ret EXCEPT ![p] =
                      [op |-> "rate_limit_entity", key |-> k, ratelimited |-> TRUE,
                       time |-> r.time, cause |-> r.cause, at |-> now, statsd |-> 1]]
                /\ UNCHANGED <<pc, loc>>
           ELSE /\ pc' = [pc EXCEPT ![p] = "incr"]
                /\ loc' = [loc EXCEPT ![p] =
                      [key |-> k, rules |-> rs,
                       max_api_calls |-> MaxApiCalls(rs),
                       max_api_window |-> MaxApiWindow(rs),
                       time |-> r.time, at |-> now,
                       tnow |-> 0, last_val |-> <<>>, count |-> 0]]
                /\ ret' = [ret EXCEPT ![p] = NoRet]
    /\ UNCHANGED <<now, list, zset, listExp, zsetExp, block, upper, dirty>>

\* RedisRateLimiterBackend.rate_limit_entity(entity_key, rules, max_api_calls,
\* max_api_window) called with arguments of the caller's choice, up to the
\* end of is_ratelimited.
BackendRateLimitEntity(p, k, rs, max_api_calls, max_api_window) ==
    /\ pc[p] = "idle"
    /\ LET r == IsRatelimited(k, rs)
       IN  IF r.ratelimited
           THEN /\ ret' = [ret EXCEPT ![p] =
                      [op |-> "rate_limit_entity", key |-> k, ratelimited |-> TRUE,
                       time |-> r.time, cause |-> r.cause, at |-> now, statsd |-> 1]]
                /\ UNCHANGED <<pc, loc>>
           ELSE /\ pc' = [pc EXCEPT ![p] = "incr"]
                /\ loc' = [loc EXCEPT ![p] =
                      [key |-> k, rules |-> rs,
                       max_api_calls |-> max_api_calls,
                       max_api_window |-> max_api_window,
                       time |-> r.time, at |-> now,
                       tnow |-> 0, last_val |-> <<>>, count |-> 0]]
                /\ ret' = [ret EXCEPT ![p] = NoRet]
    /\ UNCHANGED <<now, list, zset, listExp, zsetExp, block, upper, dirty>>

\* What rate_limit_entity returns once incr_ratelimit has returned or raised.
Returned(p, ratelimited, cause) ==
    [op |-> "rate_limit_entity", key |-> loc[p].key, ratelimited |-> ratelimited,
     time |-> loc[p].time, cause |-> cause, at |-> loc[p].at, statsd |-> 0]

\* Faulty variant of IncrBegin: the early return for an empty rule set is
\* missing.
IncrBeginNoEarlyReturn(p) ==
    /\ pc[p] = "incr"
    /\ pc' = [pc EXCEPT ![p] = "watch"]
    /\ loc' = [loc EXCEPT ![p].tnow = now, ![p].count = 0]
    /\ UNCHANGED <<now, list, zset, listExp, zsetExp, block, upper, dirty, ret>>

\* incr_ratelimit, lines 271-280: read the clock; nothing is stored for an
\* empty rule set.
IncrBegin(p) ==
    /\ pc[p] = "incr"
    /\ IF Len(loc[p].rules) = 0
       THEN /\ pc' = [pc EXCEPT ![p] = "idle"]
            /\ ret' = [ret EXCEPT ![p] = Returned(p, FALSE, "none")]
            /\ loc' = [loc EXCEPT ![p] = NoLoc]
       ELSE /\ pc' = [pc EXCEPT ![p] = "watch"]
            /\ loc' = [loc EXCEPT ![p].tnow = now, ![p].count = 0]
            /\ UNCHANGED ret
    /\ UNCHANGED <<now, list, zset, listExp, zsetExp, block, upper, dirty>>

\* Lines 287-290: WATCH the list and read the element the trim will drop.
Watch(p) ==
    /\ pc[p] = "watch"
    /\ pc' = [pc EXCEPT ![p] = "exec"]
    /\ loc' = [loc EXCEPT ![p].last_val =
                  LIndex(list[loc[p].key], loc[p].max_api_calls - 1)]
    /\ dirty' = [dirty EXCEPT ![p] = FALSE]
    /\ UNCHANGED <<now, list, zset, listExp, zsetExp, block, upper, ret>>

\* The list after LPUSH now and LTRIM 0 (max_api_calls - 1).
PushedList(l, tnow, max_api_calls) == LTrim(LPush(l, tnow), 0, max_api_calls - 1)

\* The sorted set after ZADD {str(now): now} and the ZREM of last_val.
AddedSet(z, tnow, last_val) ==
    IF last_val # <<>> THEN (z \cup {tnow}) \ {last_val[1]} ELSE z \cup {tnow}

\* Faulty variant of Expiry: no expiry is ever set.
ExpiryNever(exists, seconds) == <<>>

\* EXPIRE key seconds, as the expiry the key has after the command: a key
\* that does not exist gets none, and a timeout <= 0 deletes the key.
Expiry(exists, seconds) == IF exists /\ seconds > 0 THEN ExpireAt(seconds) ELSE <<>>

\* Faulty variant of ExecCommit: after the transaction has committed the
\* loop goes round again.
ExecCommitLoops(p) ==
    /\ pc[p] = "exec"
    /\ ~dirty[p]
    /\ LET k == loc[p].key
           l2 == PushedList(list[k], loc[p].tnow, loc[p].max_api_calls)
           z2 == AddedSet(zset[k], loc[p].tnow, loc[p].last_val)
           w == loc[p].max_api_window
       IN  /\ list' = [list EXCEPT ![k] = IF w > 0 THEN l2 ELSE <<>>]
           /\ zset' = [zset EXCEPT ![k] = IF w > 0 THEN z2 ELSE {}]
           /\ listExp' = [listExp EXCEPT ![k] = Expiry(l2 # <<>>, w)]
           /\ zsetExp' = [zsetExp EXCEPT ![k] = Expiry(z2 # {}, w)]
           /\ dirty' = [q \in Procs |->
                          IF q # p /\ q \in Watchers(k) THEN TRUE ELSE dirty[q]]
    /\ pc' = [pc EXCEPT ![p] = "watch"]
    /\ UNCHANGED <<now, block, upper, ret, loc>>

\* Faulty variant of ExecCommit: the commit aborts no open transaction, as
\* if the list were not watched.
ExecCommitUnwatched(p) ==
    /\ pc[p] = "exec"
    /\ ~dirty[p]
    /\ LET k == loc[p].key
           l2 == PushedList(list[k], loc[p].tnow, loc[p].max_api_calls)
           z2 == AddedSet(zset[k], loc[p].tnow, loc[p].last_val)
           w == loc[p].max_api_window
       IN  /\ list' = [list EXCEPT ![k] = IF w > 0 THEN l2 ELSE <<>>]
           /\ zset' = [zset EXCEPT ![k] = IF w > 0 THEN z2 ELSE {}]
           /\ listExp' = [listExp EXCEPT ![k] = Expiry(l2 # <<>>, w)]
           /\ zsetExp' = [zsetExp EXCEPT ![k] = Expiry(z2 # {}, w)]
    /\ pc' = [pc EXCEPT ![p] = "idle"]
    /\ ret' = [ret EXCEPT ![p] = Returned(p, FALSE, "none")]
    /\ loc' = [loc EXCEPT ![p] = NoLoc]
    /\ UNCHANGED <<now, block, upper, dirty>>

\* Faulty variant of ExecCommit: the commit aborts every open transaction,
\* whatever key it watches.
ExecCommitDirtiesAll(p) ==
    /\ pc[p] = "exec"
    /\ ~dirty[p]
    /\ LET k == loc[p].key
           l2 == PushedList(list[k], loc[p].tnow, loc[p].max_api_calls)
           z2 == AddedSet(zset[k], loc[p].tnow, loc[p].last_val)
           w == loc[p].max_api_window
       IN  /\ list' = [list EXCEPT ![k] = IF w > 0 THEN l2 ELSE <<>>]
           /\ zset' = [zset EXCEPT ![k] = IF w > 0 THEN z2 ELSE {}]
           /\ listExp' = [listExp EXCEPT ![k] = Expiry(l2 # <<>>, w)]
           /\ zsetExp' = [zsetExp EXCEPT ![k] = Expiry(z2 # {}, w)]
           /\ dirty' = [q \in Procs |->
                          IF q # p /\ pc[q] = "exec" THEN TRUE ELSE dirty[q]]
    /\ pc' = [pc EXCEPT ![p] = "idle"]
    /\ ret' = [ret EXCEPT ![p] = Returned(p, FALSE, "none")]
    /\ loc' = [loc EXCEPT ![p] = NoLoc]
    /\ UNCHANGED <<now, block, upper>>

\* Lines 293-318: the transaction commits when the list was not written
\* since the WATCH.
ExecCommit(p) ==
    /\ pc[p] = "exec"
    /\ ~dirty[p]
    /\ LET k == loc[p].key
           l2 == PushedList(list[k], loc[p].tnow, loc[p].max_api_calls)
           z2 == AddedSet(zset[k], loc[p].tnow, loc[p].last_val)
           w == loc[p].max_api_window
       IN  /\ list' = [list EXCEPT ![k] = IF w > 0 THEN l2 ELSE <<>>]
           /\ zset' = [zset EXCEPT ![k] = IF w > 0 THEN z2 ELSE {}]
           /\ listExp' = [listExp EXCEPT ![k] = Expiry(l2 # <<>>, w)]
           /\ zsetExp' = [zsetExp EXCEPT ![k] = Expiry(z2 # {}, w)]
           /\ dirty' = [q \in Procs |->
                          IF q # p /\ q \in Watchers(k) THEN TRUE ELSE dirty[q]]
    /\ pc' = [pc EXCEPT ![p] = "idle"]
    /\ ret' = [ret EXCEPT ![p] = Returned(p, FALSE, "none")]
    /\ loc' = [loc EXCEPT ![p] = NoLoc]
    /\ UNCHANGED <<now, block, upper>>

\* Lines 319-324: EXEC raised WatchError and the loop goes round again.
ExecRetry(p) ==
    /\ pc[p] = "exec"
    /\ dirty[p]
    /\ ~(loc[p].count > 10)
    /\ pc' = [pc EXCEPT ![p] = "watch"]
    /\ loc' = [loc EXCEPT ![p].count = loc[p].count + 1]
    /\ UNCHANGED <<now, list, zset, listExp, zsetExp, block, upper, dirty, ret>>

\* Faulty variant of ExecLockFail: the locking failure is swallowed and the call is
\* reported as allowed.
ExecLockFailOpen(p) ==
    /\ pc[p] = "exec"
    /\ dirty[p]
    /\ loc[p].count > 10
    /\ pc' = [pc EXCEPT ![p] = "idle"]
    /\ ret' = [ret EXCEPT ![p] =
           [op |-> "rate_limit_entity", key |-> loc[p].key, ratelimited |-> FALSE,
            time |-> loc[p].time, cause |-> "lock", at |-> loc[p].at, statsd |-> 0]]
    /\ loc' = [loc EXCEPT ![p] = NoLoc]
    /\ UNCHANGED <<now, list, zset, listExp, zsetExp, block, upper, dirty>>

\* Faulty variant of ExecLockFail: the caller that could not record is
\* blocked for a second.
ExecLockFailBlocks(p) ==
    /\ pc[p] = "exec"
    /\ dirty[p]
    /\ loc[p].count > 10
    /\ pc' = [pc EXCEPT ![p] = "idle"]
    /\ ret' = [ret EXCEPT ![p] =
           [op |-> "rate_limit_entity", key |-> loc[p].key, ratelimited |-> TRUE,
            time |-> loc[p].time, cause |-> "lock", at |-> loc[p].at, statsd |-> 0]]
    /\ block' = [block EXCEPT ![loc[p].key] = <<now + 1>>]
    /\ loc' = [loc EXCEPT ![p] = NoLoc]
    /\ UNCHANGED <<now, list, zset, listExp, zsetExp, upper, dirty>>

\* Lines 320-321 and 337-342: RateLimiterLockingException is raised, and
\* rate_limit_entity catches it, logs a warning and reports a denial.
ExecLockFail(p) ==
    /\ pc[p] = "exec"
    /\ dirty[p]
    /\ loc[p].count > 10
    /\ pc' = [pc EXCEPT ![p] = "idle"]
    /\ ret' = [ret EXCEPT ![p] = Returned(p, TRUE, "lock")]
    /\ loc' = [loc EXCEPT ![p] = NoLoc]
    /\ UNCHANGED <<now, list, zset, listExp, zsetExp, block, upper, dirty>>

\* ---------------------------------------------------------------- the clock
\* A key with expiry exp is still there at t; a key without one stays.
Live(exp, t) == exp = <<>> \/ exp[1] >= t

\* The clock reaches t; Redis drops the keys whose expiry is behind it.  An
\* expiry is not a write for WATCH.
Advance(t) ==
    /\ t > now
    /\ now' = t
    /\ list' = [k \in Keys |-> IF Live(listExp[k], t) THEN list[k] ELSE <<>>]
    /\ listExp' = [k \in Keys |-> IF Live(listExp[k], t) THEN listExp[k] ELSE <<>>]
    /\ zset' = [k \in Keys |-> IF Live(zsetExp[k], t) THEN zset[k] ELSE {}]
    /\ zsetExp' = [k \in Keys |-> IF Live(zsetExp[k], t) THEN zsetExp[k] ELSE <<>>]
    /\ block' = [k \in Keys |-> IF Live(block[k], t) THEN block[k] ELSE <<>>]
    /\ UNCHANGED <<upper, pc, loc, dirty, ret>>

\* A second passes.
Tick == Advance(now + 1)

\* ------------------------------------------------------ administrative calls
\* block_access(entity_key, seconds): SET and EXPIRE in one transaction.
BlockAccess(p, k, seconds) ==
    /\ pc[p] = "idle"
    /\ block' = [block EXCEPT ![k] = Expiry(TRUE, seconds)]
    /\ ret' = [ret EXCEPT ![p] = [op |-> "block_access", key |-> k, seconds |-> seconds]]
    /\ UNCHANGED <<now, list, zset, listExp, zsetExp, upper, pc, loc, dirty>>

\* Faulty variant of UnblockAccess: the DEL goes to the list key.
UnblockAccessWrongKey(p, k) ==
    /\ pc[p] = "idle"
    /\ list' = [list EXCEPT ![k] = <<>>]
    /\ listExp' = [listExp EXCEPT ![k] = <<>>]
    /\ ret' = [ret EXCEPT ![p] = [op |-> "unblock_access", key |-> k]]
    /\ UNCHANGED <<now, zset, zsetExp, block, upper, pc, loc, dirty>>

\* unblock_access(entity_key): DEL of the blocking key.
UnblockAccess(p, k) ==
    /\ pc[p] = "idle"
    /\ block' = [block EXCEPT ![k] = <<>>]
    /\ ret' = [ret EXCEPT ![p] = [op |-> "unblock_access", key |-> k]]
    /\ UNCHANGED <<now, list, zset, listExp, zsetExp, upper, pc, loc, dirty>>

\* clear_history(entity_key) deletes the three keys one round trip at a time.
\* First DEL: the list.  Deleting a list that exists is a write for WATCH.
ClearList(p, k) ==
    /\ pc[p] = "idle"
    /\ list' = [list EXCEPT ![k] = <<>>]
    /\ listExp' = [listExp EXCEPT ![k] = <<>>]
    /\ dirty' = [q \in Procs |->
                   IF list[k] # <<>> /\ q \in Watchers(k) THEN TRUE ELSE dirty[q]]
    /\ pc' = [pc EXCEPT ![p] = "clear_zset"]
    /\ loc' = [loc EXCEPT ![p] = [key |-> k]]
    /\ ret' = [ret EXCEPT ![p] = NoRet]
    /\ UNCHANGED <<now, zset, zsetExp, block, upper>>

\* Faulty variant of ClearZset: the sorted set is not deleted.
ClearZsetSkipped(p) ==
    /\ pc[p] = "clear_zset"
    /\ pc' = [pc EXCEPT ![p] = "clear_block"]
    /\ UNCHANGED <<now, list, zset, listExp, zsetExp, block, upper, loc, dirty, ret>>

\* Second DEL: the sorted set.
ClearZset(p) ==
    /\ pc[p] = "clear_zset"
    /\ zset' = [zset EXCEPT ![loc[p].key] = {}]
    /\ zsetExp' = [zsetExp EXCEPT ![loc[p].key] = <<>>]
    /\ pc' = [pc EXCEPT ![p] = "clear_block"]
    /\ UNCHANGED <<now, list, listExp, block, upper, loc, dirty, ret>>

\* Third DEL: the blocking key.
ClearBlock(p) ==
    /\ pc[p] = "clear_block"
    /\ block' = [block EXCEPT ![loc[p].key] = <<>>]
    /\ pc' = [pc EXCEPT ![p] = "idle"]
    /\ ret' = [ret EXCEPT ![p] = [op |-> "clear_history", key |-> loc[p].key]]
    /\ loc' = [loc EXCEPT ![p] = NoLoc]
    /\ UNCHANGED <<now, list, zset, listExp, zsetExp, upper, dirty>>

\* Faulty variant of ApiCallsLeft: the query also removes the members of the
\* sorted set that lie before the window.
ApiCallsLeftPrunes(p, k) ==
    /\ pc[p] = "idle"
    /\ ResolveError(k) = ""
    /\ LET rs == EntityRules(k)
           max_window == MaxApiWindow(rs)
           max_calls == MaxApiCalls(rs)
           r == GetApiCallsLeft(k, max_window, max_calls)
       IN  /\ ret' = [ret EXCEPT ![p] =
                    [op |-> "api_calls_left", key |-> k, remaining |-> r[1],
                     reset |-> r[2], at |-> now,
                     window |-> max_window, max_calls |-> max_calls]]
           /\ zset' = [zset EXCEPT ![k] = {t \in @ : t >= now - max_window}]
    /\ UNCHANGED <<now, list, listExp, zsetExp, block, upper, pc, loc, dirty>>

\* Faulty variant of ApiCallsLeft: the query also deletes the blocking key.
ApiCallsLeftDropsBlock(p, k) ==
    /\ pc[p] = "idle"
    /\ ResolveError(k) = ""
    /\ LET rs == EntityRules(k)
           max_window == MaxApiWindow(rs)
           max_calls == MaxApiCalls(rs)
           r == GetApiCallsLeft(k, max_window, max_calls)
       IN  ret' = [ret EXCEPT ![p] =
                    [op |-> "api_calls_left", key |-> k, remaining |-> r[1],
                     reset |-> r[2], at |-> now,
                     window |-> max_window, max_calls |-> max_calls]]
    /\ block' = [block EXCEPT ![k] = <<>>]
    /\ UNCHANGED <<now, list, zset, listExp, zsetExp, upper, pc, loc, dirty>>

\* RateLimitedObject.api_calls_left(): get_api_calls_left for the last rule.
ApiCallsLeft(p, k) ==
    /\ pc[p] = "idle"
    /\ ResolveError(k) = ""
    /\ LET rs == EntityRules(k)
           max_window == MaxApiWindow(rs)
           max_calls == MaxApiCalls(rs)
           r == GetApiCallsLeft(k, max_window, max_calls)
       IN  ret' = [ret EXCEPT ![p] =
                    [op |-> "api_calls_left", key |-> k, remaining |-> r[1],
                     reset |-> r[2], at |-> now,
                     window |-> max_window, max_calls |-> max_calls]]
    /\ UNCHANGED <<now, list, zset, listExp, zsetExp, block, upper, pc, loc, dirty>>

\* ------------------------------------------------------- rate_limit_request
\* RateLimitResult.__init__: the assert of line 348 fails when over_limit
\* comes with a remaining that is not 0.
RateLimitResult(entity, secs_to_freedom, over_limit, remaining) ==
    [entity |-> entity, secs_to_freedom |-> secs_to_freedom,
     over_limit |-> over_limit, remaining |-> remaining,
     asserted |-> ~over_limit \/ remaining = 0]

\* rate_limit_request(request) is entered, on a request that is new or on
\* the request of the caller's last call, and calls rate_limit.
RequestBegin(p, k, new_request) ==
    /\ pc[p] = "idle"
    /\ reqpc[p].at = "none"
    /\ reqpc' = [reqpc EXCEPT ![p] = [at |-> "rate_limit", key |-> k]]
    /\ applied' = [applied EXCEPT ![p] = IF new_request THEN <<>> ELSE @]
    /\ ret' = [ret EXCEPT ![p] = NoRet]
    /\ UNCHANGED <<now, list, zset, listExp, zsetExp, block, rules, rate_limits, KEY_PREFIX,
                   pc, loc, dirty>>

\* The call of rate_limit that rate_limit_request makes has not begun.
RequestCalls(p, k) == reqpc[p] = [at |-> "rate_limit", key |-> k] /\ ret[p] = NoRet

\* Faulty variant of RequestAttach: a denial does not raise, and the
\* remaining quota is queried after it as well.
RequestAttachNoRaise(p) ==
    /\ pc[p] = "idle"
    /\ reqpc[p].at = "rate_limit"
    /\ ret[p].op = "rate_limit_entity"
    /\ applied' = [applied EXCEPT ![p] =
           Append(@, RateLimitResult(reqpc[p].key, ret[p].time, ret[p].ratelimited, 0))]
    /\ reqpc' = [reqpc EXCEPT ![p].at = "left"]
    /\ UNCHANGED ret
    /\ UNCHANGED <<now, list, zset, listExp, zsetExp, block, rules, rate_limits, KEY_PREFIX,
                   pc, loc, dirty>>

\* Lines 45-58: rate_limit has returned; its result is attached to the
\* request, and a denial raises RateLimited(str(time)).
RequestAttach(p) ==
    /\ pc[p] = "idle"
    /\ reqpc[p].at = "rate_limit"
    /\ ret[p].op = "rate_limit_entity"
    /\ applied' = [applied EXCEPT ![p] =
           Append(@, RateLimitResult(reqpc[p].key, ret[p].time, ret[p].ratelimited, 0))]
    /\ IF ret[p].ratelimited
       THEN /\ reqpc' = [reqpc EXCEPT ![p] = NoReq]
            /\ ret' = [ret EXCEPT ![p] =
                   [op |-> "rate_limit_request", key |-> reqpc[p].key,
                    raised |-> "RateLimited", msg |-> ret[p].time, at |-> now]]
       ELSE /\ reqpc' = [reqpc EXCEPT ![p].at = "left"]
            /\ UNCHANGED ret
    /\ UNCHANGED <<now, list, zset, listExp, zsetExp, block, rules, rate_limits, KEY_PREFIX,
                   pc, loc, dirty>>

\* Faulty variant of RequestLeft: the quota is asked for the first rule of
\* the rule set.
RequestLeftFirstRule(p) ==
    /\ pc[p] = "idle"
    /\ reqpc[p].at = "left"
    /\ ResolveError(reqpc[p].key) = ""
    /\ LET k == reqpc[p].key
           rs == EntityRules(k)
           r == GetApiCallsLeft(k, rs[1][1], rs[1][2])
           n == Len(applied[p])
       IN  /\ applied' = [applied EXCEPT ![p][n].remaining = r[1],
                                         ![p][n].secs_to_freedom = r[2]]
           /\ ret' = [ret EXCEPT ![p] =
                  [op |-> "rate_limit_request", key |-> k, raised |-> "",
                   msg |-> 0, at |-> now]]
    /\ reqpc' = [reqpc EXCEPT ![p] = NoReq]
    /\ UNCHANGED <<now, list, zset, listExp, zsetExp, block, rules, rate_limits, KEY_PREFIX,
                   pc, loc, dirty>>

\* Lines 60-63: api_calls_left() is asked and its answer is written into the
\* result attached last.
RequestLeft(p) ==
    /\ pc[p] = "idle"
    /\ reqpc[p].at = "left"
    /\ ResolveError(reqpc[p].key) = ""
    /\ LET k == reqpc[p].key
           rs == EntityRules(k)
           r == GetApiCallsLeft(k, MaxApiWindow(rs), MaxApiCalls(rs))
           n == Len(applied[p])
       IN  /\ applied' = [applied EXCEPT ![p][n].remaining = r[1],
                                         ![p][n].secs_to_freedom = r[2]]
           /\ ret' = [ret EXCEPT ![p] =
                  [op |-> "rate_limit_request", key |-> k, raised |-> "",
                   msg |-> 0, at |-> now]]
    /\ reqpc' = [reqpc EXCEPT ![p] = NoReq]
    /\ UNCHANGED <<now, list, zset, listExp, zsetExp, block, rules, rate_limits, KEY_PREFIX,
                   pc, loc, dirty>>

\* ---------------------------------------- the Postfix policy protocol
\* (zerver/management/commands/email_mirror_rate_limit.py)
\* A request is the dict lineReceived builds: a function from some of the
\* attribute names to their values.
Addresses == {"a@example.com", "b@example.com"}
PostfixRequests ==
    UNION {[D -> Addresses] : D \in SUBSET {"recipient", "sender"}}

\* What the calls into zerver.lib.email_mirror can do: is_missed_message_address
\* answers True or False, extract_and_validate returns or raises
\* ZulipEmailForwardError, rate_limit_mirror_by_realm returns or raises
\* RateLimited.
ValidationOutcomes == {"ok", "ZulipEmailForwardError"}
RateLimitOutcomes == {"ok", "RateLimited"}

\* sendPostfixAction(response), lines 79-82: one line 'action=<response>' is
\* written to the connection.
SendPostfixAction(sent, response) == Append(sent, <<"action", response>>)

\* Faulty variant of GotPostfixRequestRun: the except branches do not return,
\* and the DUNNO of line 77 follows the REJECT.
GotPostfixRequestFallsThrough(input_dict, missed, validation, limit) ==
    IF "recipient" \notin DOMAIN input_dict
    THEN [sent |-> SendPostfixAction(<<>>, "DUNNO"), calls |-> <<>>]
    ELSE IF missed
    THEN [sent |-> SendPostfixAction(<<>>, "DUNNO"),
          calls |-> <<"is_missed_message_address">>]
    ELSE IF validation # "ok"
    THEN [sent |-> SendPostfixAction(SendPostfixAction(<<>>, "REJECT"), "DUNNO"),
          calls |-> <<"is_missed_message_address", "extract_and_validate">>]
    ELSE IF limit # "ok"
    THEN [sent |-> SendPostfixAction(SendPostfixAction(<<>>, "REJECT"), "DUNNO"),
          calls |-> <<"is_missed_message_address", "extract_and_validate",
                      "rate_limit_mirror_by_realm">>]
    ELSE [sent |-> SendPostfixAction(<<>>, "DUNNO"),
          calls |-> <<"is_missed_message_address", "extract_and_validate",
                      "rate_limit_mirror_by_realm">>]

\* gotPostfixRequest(input_dict), lines 48-77, for given outcomes of the calls
\* it makes: the lines it sends and the calls it makes, in order.
GotPostfixRequestRun(input_dict, missed, validation, limit) ==
    IF "recipient" \notin DOMAIN input_dict
    THEN \* lines 49-51
         [sent |-> SendPostfixAction(<<>>, "DUNNO"), calls |-> <<>>]
    ELSE IF missed
    THEN \* line 55 skips the try block; line 77
         [sent |-> SendPostfixAction(<<>>, "DUNNO"),
          calls |-> <<"is_missed_message_address">>]
    ELSE IF validation # "ok"
    THEN \* line 59 raises; lines 68-72
         [sent |-> SendPostfixAction(<<>>, "REJECT"),
          calls |-> <<"is_missed_message_address", "extract_and_validate">>]
    ELSE IF limit # "ok"
    THEN \* line 60 raises; lines 62-67
         [sent |-> SendPostfixAction(<<>>, "REJECT"),
          calls |-> <<"is_missed_message_address", "extract_and_validate",
                      "rate_limit_mirror_by_realm">>]
    ELSE \* line 77
         [sent |-> SendPostfixAction(<<>>, "DUNNO"),
          calls |-> <<"is_missed_message_address", "extract_and_validate",
                      "rate_limit_mirror_by_realm">>]

\* The connection p gets a request; the outcomes of the calls that are not
\* made are recorded as "unknown".
GotPostfixRequest(p, input_dict) ==
    /\ pc[p] = "idle"
    /\ \E missed \in BOOLEAN : \E validation \in ValidationOutcomes :
       \E limit \in RateLimitOutcomes :
           LET r == GotPostfixRequestRun(input_dict, missed, validation, limit)
               made(c) == \E i \in 1..Len(r.calls) : r.calls[i] = c
           IN  ret' = [ret EXCEPT ![p] =
                   [op |-> "gotPostfixRequest", input_dict |-> input_dict,
                    missed |-> IF ~made("is_missed_message_address") THEN "unknown"
                               ELSE IF missed THEN "True" ELSE "False",
                    validation |-> IF made("extract_and_validate")
                                   THEN validation ELSE "unknown",
                    limit |-> IF made("rate_limit_mirror_by_realm")
                              THEN limit ELSE "unknown",
                    sent |-> r.sent, calls |-> r.calls]]
    /\ UNCHANGED <<now, list, zset, listExp, zsetExp, block, upper, pc, loc, dirty>>

\* ------------------------------------------------------------ the rule table
\* list.sort(key=lambda x: x[0]) is stable: x goes behind every rule whose
\* window is at most its own.
InsertByWindow(sorted, x) ==
    LET n == Cardinality({i \in 1..Len(sorted) : sorted[i][1] <= x[1]})
    IN  SubSeq(sorted, 1, n) \o <<x>> \o SubSeq(sorted, n + 1, Len(sorted))

RECURSIVE SortByWindow(_)
SortByWindow(l) ==
    IF l = <<>> THEN <<>>
    ELSE InsertByWindow(SortByWindow(SubSeq(l, 1, Len(l) - 1)), l[Len(l)])

\* Faulty variant of AddRatelimitRule: the rule is appended and the list is
\* not sorted again.
AddRatelimitRuleUnsorted(p, range_seconds, num_requests, domain) ==
    /\ pc[p] = "idle"
    /\ LET old == IF domain \in DOMAIN rules THEN rules[domain] ELSE <<>>
       IN  rules' = [d \in DOMAIN rules \cup {domain} |->
                       IF d = domain
                       THEN Append(old, <<range_seconds, num_requests>>)
                       ELSE rules[d]]
    /\ ret' = [ret EXCEPT ![p] =
           [op |-> "add_ratelimit_rule", domain |-> domain,
            rule |-> <<range_seconds, num_requests>>]]
    /\ UNCHANGED <<now, list, zset, listExp, zsetExp, block, rate_limits, KEY_PREFIX, reqpc,
                   applied, pc, loc, dirty>>

\* Faulty variant of AddRatelimitRule: the history stored for the entities of
\* the domain is dropped with the change of its rules.
AddRatelimitRuleResets(p, range_seconds, num_requests, domain) ==
    /\ pc[p] = "idle"
    /\ LET old == IF domain \in DOMAIN rules THEN rules[domain] ELSE <<>>
       IN  rules' = [d \in DOMAIN rules \cup {domain} |->
                       IF d = domain
                       THEN SortByWindow(Append(old, <<range_seconds, num_requests>>))
                       ELSE rules[d]]
    /\ ret' = [ret EXCEPT ![p] =
           [op |-> "add_ratelimit_rule", domain |-> domain,
            rule |-> <<range_seconds, num_requests>>]]
    /\ list' = [k \in Keys |-> IF KeyDomain(k) = domain THEN <<>> ELSE list[k]]
    /\ listExp' = [k \in Keys |-> IF KeyDomain(k) = domain THEN <<>> ELSE listExp[k]]
    /\ UNCHANGED <<now, zset, zsetExp, block, rate_limits, KEY_PREFIX, reqpc,
                   applied, pc, loc, dirty>>

\* add_ratelimit_rule(range_seconds, num_requests, domain)
AddRatelimitRule(p, range_seconds, num_requests, domain) ==
    /\ pc[p] = "idle"
    /\ LET old == IF domain \in DOMAIN rules THEN rules[domain] ELSE <<>>
       IN  rules' = [d \in DOMAIN rules \cup {domain} |->
                       IF d = domain
                       THEN SortByWindow(Append(old, <<range_seconds, num_requests>>))
                       ELSE rules[d]]
    /\ ret' = [ret EXCEPT ![p] =
           [op |-> "add_ratelimit_rule", domain |-> domain,
            rule |-> <<range_seconds, num_requests>>]]
    /\ UNCHANGED <<now, list, zset, listExp, zsetExp, block, rate_limits, KEY_PREFIX, reqpc,
                   applied, pc, loc, dirty>>

\* Line 135: the rules the comprehension keeps.
KeptRules(rs, range_seconds, num_requests) ==
    SelectSeq(rs, LAMBDA x : x[1] # range_seconds /\ x[2] # num_requests)

\* remove_ratelimit_rule(range_seconds, num_requests, domain); rules[domain]
\* raises KeyError for a domain the table does not have.
RemoveRatelimitRule(p, range_seconds, num_requests, domain) ==
    /\ pc[p] = "idle"
    /\ IF domain \in DOMAIN rules
       THEN /\ rules' = [rules EXCEPT ![domain] =
                            KeptRules(@, range_seconds, num_requests)]
            /\ ret' = [ret EXCEPT ![p] =
                   [op |-> "remove_ratelimit_rule", domain |-> domain,
                    rule |-> <<range_seconds, num_requests>>, raised |-> ""]]
       ELSE /\ rules' = rules
            /\ ret' = [ret EXCEPT ![p] =
                   [op |-> "remove_ratelimit_rule", domain |-> domain,
                    rule |-> <<range_seconds, num_requests>>,
                    raised |-> "KeyError"]]
    /\ UNCHANGED <<now, list, zset, listExp, zsetExp, block, rate_limits, KEY_PREFIX, reqpc,
                   applied, pc, loc, dirty>>

\* --------------------------------------------------- the recorded history
RECURSIVE Since(_, _)
\* The entries of h that are at least `from`.
Since(h, from) ==
    IF h = <<>> THEN <<>>
    ELSE IF Head(h) >= from THEN <<Head(h)>> \o Since(Tail(h), from)
    ELSE Since(Tail(h), from)

\* The ghost variables after each step that moves them.
GhostCommit(p) ==
    /\ hist' = [hist EXCEPT ![loc[p].key] = Append(@, loc[p].tnow)]
    /\ lastCommit' = [lastCommit EXCEPT ![loc[p].key] = <<now>>]
    /\ wiped' = [wiped EXCEPT ![loc[p].key] = <<>>]
    /\ UNCHANGED <<blockedFor, overlapped>>

GhostTick ==
    /\ hist' = [k \in Keys |-> Since(hist[k], (now + 1) - MaxWindow)]
    /\ lastCommit' = [k \in Keys |-> Since(lastCommit[k], (now + 1) - MaxWindow)]
    /\ UNCHANGED <<blockedFor, wiped, overlapped>>

GhostClear(k) ==
    /\ hist' = [hist EXCEPT ![k] = <<>>]
    /\ lastCommit' = [lastCommit EXCEPT ![k] = <<>>]
    /\ wiped' = [wiped EXCEPT ![k] = <<[len |-> Len(list[k]), block |-> block[k]]>>]
    /\ UNCHANGED <<blockedFor, overlapped>>

GhostBlock(k, seconds) ==
    /\ blockedFor' = [blockedFor EXCEPT ![k] = <<seconds>>]
    /\ wiped' = [wiped EXCEPT ![k] = <<>>]
    /\ UNCHANGED <<hist, lastCommit, overlapped>>

GhostUnblock(k) ==
    /\ blockedFor' = [blockedFor EXCEPT ![k] = IF block[k] # <<>> THEN <<0>> ELSE @]
    /\ UNCHANGED <<hist, lastCommit, wiped, overlapped>>

\* A call of rate_limit_entity on k by p begins.
GhostCall(p, k) ==
    /\ overlapped' = [overlapped EXCEPT ![k] =
           @ \/ \E q \in Procs \ {p} :
                    pc[q] \in {"incr", "watch", "exec"} /\ loc[q].key = k]
    /\ UNCHANGED <<hist, blockedFor, lastCommit, wiped>>

\* ---------------------------------------- Spec: one caller, one entity key
\* All calls come from one caller, one after the other; the clock may move
\* between any two steps.
Next ==
    \/ now < MaxTime /\ Tick /\ GhostTick
    \/ \E k \in SeqKeys : RateLimitEntity(SeqProc, k) /\ UNCHANGED ghost
    \/ IncrBegin(SeqProc) /\ UNCHANGED ghost
    \/ Watch(SeqProc) /\ UNCHANGED ghost
    \/ ExecCommit(SeqProc) /\ GhostCommit(SeqProc)
    \/ \E k \in SeqKeys : \E s \in 1..MaxBlockSeconds :
           BlockAccess(SeqProc, k, s) /\ GhostBlock(k, s)
    \/ \E k \in SeqKeys :
           UnblockAccess(SeqProc, k) /\ GhostUnblock(k)
    \/ \E k \in SeqKeys :
           ClearList(SeqProc, k) /\ GhostClear(k)
    \/ ClearZset(SeqProc) /\ UNCHANGED ghost
    \/ ClearBlock(SeqProc) /\ UNCHANGED ghost
    \/ \E k \in SeqKeys : ApiCallsLeft(SeqProc, k) /\ UNCHANGED ghost

Spec == Init /\ [][Next]_vars

\* ------------------------- ScenarioSpec: the rule (60, 2) at chosen instants
\* One caller, one entity with the rule set [(60, 2)].  The clock jumps from
\* one of the instants below to a later one while the caller is at rest, so
\* every call runs at a single instant.
ScenarioRules == << <<60, 2>> >>
ScenarioTimes == {0, 1, 2, 61, 62}

ScenarioInit == Fresh /\ NoOverride /\ rules = Table(ScenarioRules)

ScenarioNext ==
    \/ \E t \in ScenarioTimes : pc[SeqProc] = "idle" /\ Advance(t) /\ UNCHANGED ghost
    \/ \E k \in SeqKeys : RateLimitEntity(SeqProc, k) /\ UNCHANGED ghost
    \/ IncrBegin(SeqProc) /\ UNCHANGED ghost
    \/ Watch(SeqProc) /\ UNCHANGED ghost
    \/ ExecCommit(SeqProc) /\ GhostCommit(SeqProc)
    \/ \E k \in SeqKeys : ApiCallsLeft(SeqProc, k) /\ UNCHANGED ghost

ScenarioSpec == ScenarioInit /\ [][ScenarioNext]_vars

\* ------------------------------ ConcSpec: two callers on one entity key
\* Two callers run rate_limit_entity and clear_history on the same key, their
\* round trips interleaved in any order.
ConcKeys == {Key(1, "api_by_user")}
ConcRuleSets == { << <<2, 1>> >>, << <<3, 2>> >> }

ConcInit == Fresh /\ NoOverride /\ rules \in {Table(rs) : rs \in ConcRuleSets}

ConcNext ==
    \/ now < ConcMaxTime /\ Tick /\ GhostTick
    \/ \E p \in Procs : \E k \in ConcKeys : RateLimitEntity(p, k) /\ GhostCall(p, k)
    \/ \E p \in Procs : IncrBegin(p) /\ UNCHANGED ghost
    \/ \E p \in Procs : Watch(p) /\ UNCHANGED ghost
    \/ \E p \in Procs : ExecCommit(p) /\ GhostCommit(p)
    \/ \E p \in Procs : ExecRetry(p) /\ UNCHANGED ghost
    \/ \E p \in Procs : ExecLockFail(p) /\ UNCHANGED ghost
    \/ \E p \in Procs : \E k \in ConcKeys :
           ClearList(p, k) /\ GhostClear(k)
    \/ \E p \in Procs : ClearZset(p) /\ UNCHANGED ghost
    \/ \E p \in Procs : ClearBlock(p) /\ UNCHANGED ghost

ConcSpec == ConcInit /\ [][ConcNext]_vars

\* ------------- ConcLiveSpec: two callers on one key that keep running
\* Two callers run rate_limit_entity and clear_history on one key with the
\* rule (3, 2), their round trips interleaved in any order; the clock stands
\* still.
\* The next round trip of a caller inside incr_ratelimit: the store answers
\* every command, so a caller that stands inside the call takes its next
\* step sooner or later.
CallStep(p) ==
    \/ IncrBegin(p) /\ UNCHANGED ghost
    \/ Watch(p) /\ UNCHANGED ghost
    \/ ExecCommit(p) /\ GhostCommit(p)
    \/ ExecRetry(p) /\ UNCHANGED ghost
    \/ ExecLockFail(p) /\ UNCHANGED ghost

ConcLiveInit == Fresh /\ NoOverride /\ rules = Table(<< <<3, 2>> >>)

ConcLiveNext ==
    \/ \E p \in Procs : \E k \in ConcKeys : RateLimitEntity(p, k) /\ GhostCall(p, k)
    \/ \E p \in Procs : IncrBegin(p) /\ UNCHANGED ghost
    \/ \E p \in Procs : Watch(p) /\ UNCHANGED ghost
    \/ \E p \in Procs : ExecCommit(p) /\ GhostCommit(p)
    \/ \E p \in Procs : ExecRetry(p) /\ UNCHANGED ghost
    \/ \E p \in Procs : ExecLockFail(p) /\ UNCHANGED ghost
    \/ \E p \in Procs : \E k \in ConcKeys :
           ClearList(p, k) /\ GhostClear(k)
    \/ \E p \in Procs : ClearZset(p) /\ UNCHANGED ghost
    \/ \E p \in Procs : ClearBlock(p) /\ UNCHANGED ghost

ConcLiveSpec ==
    ConcLiveInit /\ [][ConcLiveNext]_vars /\ \A p \in Procs : WF_vars(CallStep(p))

\* ------------- BlockSpec: two callers on one key, with the block flag
\* Two callers run every operation of the backend on one key with the rule
\* (2, 1), their round trips interleaved in any order; the clock stands
\* still.
BlockInit == Fresh /\ NoOverride /\ rules = Table(<< <<2, 1>> >>)

BlockNext ==
    \/ \E p \in Procs : \E k \in ConcKeys : RateLimitEntity(p, k) /\ GhostCall(p, k)
    \/ \E p \in Procs : IncrBegin(p) /\ UNCHANGED ghost
    \/ \E p \in Procs : Watch(p) /\ UNCHANGED ghost
    \/ \E p \in Procs : ExecCommit(p) /\ GhostCommit(p)
    \/ \E p \in Procs : ExecRetry(p) /\ UNCHANGED ghost
    \/ \E p \in Procs : ExecLockFail(p) /\ UNCHANGED ghost
    \/ \E p \in Procs : \E k \in ConcKeys : \E s \in 1..MaxBlockSeconds :
           BlockAccess(p, k, s) /\ GhostBlock(k, s)
    \/ \E p \in Procs : \E k \in ConcKeys :
           UnblockAccess(p, k) /\ GhostUnblock(k)
    \/ \E p \in Procs : \E k \in ConcKeys :
           ClearList(p, k) /\ GhostClear(k)
    \/ \E p \in Procs : ClearZset(p) /\ UNCHANGED ghost
    \/ \E p \in Procs : ClearBlock(p) /\ UNCHANGED ghost
    \/ \E p \in Procs : \E k \in ConcKeys : ApiCallsLeft(p, k) /\ UNCHANGED ghost

BlockSpec == BlockInit /\ [][BlockNext]_vars

\* ------------------------------------- RuleSpec: the rule table is edited
\* One caller adds and removes rules, in both domains, starting from a table
\* that holds a sorted rule set for 'api_by_user' and none for 'email'.
RuleNext ==
    \/ \E w \in 1..MaxRuleArg : \E n \in 1..MaxRuleArg : \E d \in Domains :
           /\ d \in DOMAIN rules => Len(rules[d]) < MaxRules
           /\ AddRatelimitRule(SeqProc, w, n, d)
           /\ UNCHANGED ghost
    \/ \E w \in 1..MaxRuleArg : \E n \in 1..MaxRuleArg : \E d \in Domains :
           RemoveRatelimitRule(SeqProc, w, n, d) /\ UNCHANGED ghost

RuleSpec == Init /\ [][RuleNext]_vars

\* ------------------------ PolicySpec: requests on two Postfix connections
\* Two connections of the policy daemon get requests, one at a time each.
PolicyInit == Fresh /\ NoOverride /\ rules = Table(<< <<2, 1>> >>)

PolicyNext ==
    \E p \in Procs : \E input_dict \in PostfixRequests :
        GotPostfixRequest(p, input_dict) /\ UNCHANGED ghost

PolicySpec == PolicyInit /\ [][PolicyNext]_vars

\* ------------------ BackendSpec: the backend is called with its own rules
\* One caller calls rate_limit_entity of the backend on one key, with the
\* rule set [(2, 1)] or with the empty rule set, and blocks and unblocks the
\* key; the clock may move between any two steps.
BackendRuleSets == {<<>>, << <<2, 1>> >>}

BackendInit == Fresh /\ NoOverride /\ rules = Table(<< <<2, 1>> >>)

BackendNext ==
    \/ now < BackendMaxTime /\ Tick /\ GhostTick
    \/ \E k \in SeqKeys : \E rs \in BackendRuleSets :
       \E c \in 1..MaxRuleArg : \E w \in 1..MaxRuleArg :
           /\ rs # <<>> => (c = rs[Len(rs)][2] /\ w = rs[Len(rs)][1])
           /\ BackendRateLimitEntity(SeqProc, k, rs, c, w)
           /\ UNCHANGED ghost
    \/ IncrBegin(SeqProc) /\ UNCHANGED ghost
    \/ Watch(SeqProc) /\ UNCHANGED ghost
    \/ ExecCommit(SeqProc) /\ GhostCommit(SeqProc)
    \/ \E k \in SeqKeys : \E s \in 1..MaxBlockSeconds :
           BlockAccess(SeqProc, k, s) /\ GhostBlock(k, s)
    \/ \E k \in SeqKeys :
           UnblockAccess(SeqProc, k) /\ GhostUnblock(k)

BackendSpec == BackendInit /\ [][BackendNext]_vars

\* ------------------ EditSpec: the rule table is edited between the calls
\* One caller calls rate_limit_entity and api_calls_left on one entity of
\* 'api_by_user' and, between two calls, adds rules to the domain and removes
\* rules from it; the clock may move between any two steps.  The domain starts
\* with the rule (3, 2); a rule is added when the domain does not have it.
\* With no rule left in the domain the call raises.
EditDomain == "api_by_user"
EditRules == {<<3, 2>>, <<2, 1>>, <<1, 2>>}

EditInit == Fresh /\ NoOverride /\ rules = Table(<< <<3, 2>> >>)

EditNext ==
    \/ now < EditMaxTime /\ Tick /\ GhostTick
    \/ \E k \in SeqKeys : RateLimitEntity(SeqProc, k) /\ UNCHANGED ghost
    \/ \E k \in SeqKeys : RateLimitRaises(SeqProc, k) /\ UNCHANGED ghost
    \/ IncrBegin(SeqProc) /\ UNCHANGED ghost
    \/ Watch(SeqProc) /\ UNCHANGED ghost
    \/ ExecCommit(SeqProc) /\ GhostCommit(SeqProc)
    \/ \E x \in EditRules :
           /\ \A i \in 1..Len(rules[EditDomain]) : rules[EditDomain][i] # x
           /\ AddRatelimitRule(SeqProc, x[1], x[2], EditDomain)
           /\ UNCHANGED ghost
    \/ \E x \in EditRules :
           RemoveRatelimitRule(SeqProc, x[1], x[2], EditDomain) /\ UNCHANGED ghost
    \/ \E k \in SeqKeys : ApiCallsLeft(SeqProc, k) /\ UNCHANGED ghost

EditSpec == EditInit /\ [][EditNext]_vars

\* ------------------------------ ReqSpec: requests of one caller, one entity
\* One caller serves requests through rate_limit_request; between two
\* requests the entity may be blocked.  The entity has the rule set of the
\* table or, with the first rule set in the table, the override "4:3,2:2".
UnsortedOverride == <<"4", ":", "3", ",", "2", ":", "2">>

ReqInit ==
    /\ Fresh
    /\ \/ rules \in {Table(rs) : rs \in RuleSets} /\ NoOverride
       \/ /\ rules = Table(<< <<2, 1>> >>)
          /\ rate_limits = [u \in Users |-> IF u = 1 THEN UnsortedOverride ELSE <<>>]

ReqNext ==
    \/ now < ReqMaxTime /\ Tick /\ GhostTick
    \/ \E k \in SeqKeys : \E new_request \in BOOLEAN :
           /\ ~new_request => Len(applied[SeqProc]) < MaxApplied
           /\ RequestBegin(SeqProc, k, new_request)
           /\ UNCHANGED ghost
    \/ \E k \in SeqKeys :
           RequestCalls(SeqProc, k) /\ RateLimitEntity(SeqProc, k) /\ UNCHANGED ghost
    \/ IncrBegin(SeqProc) /\ UNCHANGED ghost
    \/ Watch(SeqProc) /\ UNCHANGED ghost
    \/ ExecCommit(SeqProc) /\ GhostCommit(SeqProc)
    \/ RequestAttach(SeqProc) /\ UNCHANGED ghost
    \/ RequestLeft(SeqProc) /\ UNCHANGED ghost
    \/ \E k \in SeqKeys : \E s \in 1..MaxBlockSeconds :
           /\ reqpc[SeqProc].at = "none"
           /\ BlockAccess(SeqProc, k, s)
           /\ GhostBlock(k, s)

ReqSpec == ReqInit /\ [][ReqNext]_vars

\* --------------------------- IndepSpec: two callers, the keys of two users
\* Two callers work on the entities of two users of 'api_by_user' with the
\* rule (2, 1), their round trips interleaved in any order; the clock stands
\* still.  The first caller runs every operation on the entity of user 1, and
\* rate_limit_entity and clear_history on the entity of user 2 as well; the
\* second caller runs rate_limit_entity on the entity of user 2.
IndepKeys(p) ==
    IF p = SeqProc THEN {Key(u, "api_by_user") : u \in Users}
    ELSE {Key(2, "api_by_user")}

IndepInit == Fresh /\ NoOverride /\ rules = Table(<< <<2, 1>> >>)

IndepNext ==
    \/ \E p \in Procs : \E k \in IndepKeys(p) : RateLimitEntity(p, k) /\ UNCHANGED ghost
    \/ \E p \in Procs : IncrBegin(p) /\ UNCHANGED ghost
    \/ \E p \in Procs : Watch(p) /\ UNCHANGED ghost
    \/ \E p \in Procs : ExecCommit(p) /\ GhostCommit(p)
    \/ \E p \in Procs : ExecRetry(p) /\ UNCHANGED ghost
    \/ \E p \in Procs : ExecLockFail(p) /\ UNCHANGED ghost
    \/ \E k \in SeqKeys :
           BlockAccess(SeqProc, k, 1) /\ GhostBlock(k, 1)
    \/ \E k \in SeqKeys :
           UnblockAccess(SeqProc, k) /\ GhostUnblock(k)
    \/ \E k \in IndepKeys(SeqProc) :
           ClearList(SeqProc, k) /\ GhostClear(k)
    \/ ClearZset(SeqProc) /\ UNCHANGED ghost
    \/ ClearBlock(SeqProc) /\ UNCHANGED ghost

IndepSpec == IndepInit /\ [][IndepNext]_vars

\* ------------------------ OverrideSpec: the rules of a user with override
\* User 1 has an override string; one caller resolves the rules of the
\* user's entities in both domains.
OverrideChars == {"1", "2", ":", ","}
GarbageChars == OverrideChars \cup {"x"}

GarbageStrings == UNION {[1..n -> GarbageChars] : n \in 0..MaxGarbageLen}
OverrideStrings ==
    UNION {[1..n -> OverrideChars] : n \in 0..MaxOverrideLen} \cup GarbageStrings

OverrideKeys == {Key(1, d) : d \in Domains}

OverrideTable == [d \in Domains |->
                    IF d = "api_by_user" THEN << <<2, 1>> >> ELSE << <<3, 2>> >>]

OverrideInit ==
    /\ Fresh
    /\ rules = OverrideTable
    /\ \E s \in OverrideStrings :
           rate_limits = [u \in Users |-> IF u = 1 THEN s ELSE <<>>]

OverrideNext == \E k \in OverrideKeys : Rules(SeqProc, k) /\ UNCHANGED ghost

OverrideSpec == OverrideInit /\ [][OverrideNext]_vars

\* ---------------- MalformedSpec: rate_limit for a user with a short override
\* User 1 has an override string of at most MaxGarbageLen characters; one
\* caller rate-limits the user's entities in both domains.  The clock stands
\* still.
MalformedInit ==
    /\ Fresh
    /\ rules = OverrideTable
    /\ \E s \in GarbageStrings :
           rate_limits = [u \in Users |-> IF u = 1 THEN s ELSE <<>>]

MalformedNext ==
    \/ \E k \in OverrideKeys : RateLimitRaises(SeqProc, k) /\ UNCHANGED ghost
    \/ \E k \in OverrideKeys :
           /\ Len(list[k]) < MaxRecorded
           /\ RateLimitEntity(SeqProc, k)
           /\ UNCHANGED ghost
    \/ IncrBegin(SeqProc) /\ UNCHANGED ghost
    \/ Watch(SeqProc) /\ UNCHANGED ghost
    \/ ExecCommit(SeqProc) /\ GhostCommit(SeqProc)

MalformedSpec == MalformedInit /\ [][MalformedNext]_vars

\* ------------------------------- KeySpec: the keys of entities, as strings
\* One caller derives the key of entities of users with ids of one and two
\* digits and domains of at most MaxDomainLen characters, colons and digits
\* among them, and the store keys of those entity keys; the key prefix may be
\* bounced meanwhile.
DomainChars == {"a", ":", "1"}
DomainStrings == UNION {[1..n -> DomainChars] : n \in 0..MaxDomainLen}
UserIds == {1, 2, 11, 12}
EntityKeyStrings == {KeyString(u, d) : u \in UserIds, d \in DomainStrings}
TestNames == {<<"t">>, <<"t", ":", "1">>}
Pids == {1, 11}

KeyInit == Fresh /\ NoOverride /\ rules = Table(<< <<2, 1>> >>)

KeyNext ==
    \/ \E test_name \in TestNames : \E pid \in Pids :
           BounceRedisKeyPrefixForTesting(SeqProc, test_name, pid) /\ UNCHANGED ghost
    \/ \E u \in UserIds : \E d \in DomainStrings :
           KeyCall(SeqProc, u, d) /\ UNCHANGED ghost
    \/ \E e \in EntityKeyStrings : GetKeysCall(SeqProc, e) /\ UNCHANGED ghost

KeySpec == KeyInit /\ [][KeyNext]_vars

\* ================================================================ claims
\* The number of calls recorded for k at `from` or later.
CountSince(k, from) == Len(Since(hist[k], from))

\* p's call of rate_limit_entity was denied by is_ratelimited in this step.
DeniedStep(p, k) ==
    /\ RateLimitEntity(p, k)
    /\ pc'[p] = "idle"
    /\ ret'[p].op = "rate_limit_entity"
    /\ ret'[p].ratelimited

\* p's call of rate_limit_entity passed is_ratelimited in this step and goes
\* on to record.
AllowedStep(p, k) == RateLimitEntity(p, k) /\ pc'[p] = "incr"

\* C1: one sequential caller, an unblocked key, one rule (W, N).  A call made
\* while fewer than N calls are recorded in the last W seconds (the closed
\* window [now - W, now]) is allowed and its record returns not-limited; a
\* call made while N recorded calls are less than W seconds old is denied
\* with 0 < wait <= W.
C1_FirstNAllowedNextDenied ==
    [][\A k \in SeqKeys :
        LET W == EntityRules(k)[1][1]
            N == EntityRules(k)[1][2]
        IN  /\ (RateLimitEntity(SeqProc, k) /\ Len(EntityRules(k)) = 1 /\ block[k] = <<>>) =>
                /\ CountSince(k, now - W) < N => AllowedStep(SeqProc, k)
                /\ CountSince(k, (now - W) + 1) >= N =>
                       /\ DeniedStep(SeqProc, k)
                       /\ 0 < ret'[SeqProc].time
                       /\ ret'[SeqProc].time <= W
            /\ (ExecCommit(SeqProc) /\ Len(EntityRules(k)) = 1) => ~ret'[SeqProc].ratelimited
      ]_vars

\* C1 witness: with one rule (W, N), N calls are recorded, all less than W
\* seconds old, and the next call has just been denied by the rule.
C1_Witness ==
    \E k \in SeqKeys :
        /\ Len(EntityRules(k)) = 1
        /\ CountSince(k, (now - EntityRules(k)[1][1]) + 1) >= EntityRules(k)[1][2]
        /\ ret[SeqProc].op = "rate_limit_entity"
        /\ ret[SeqProc].key = k
        /\ ret[SeqProc].cause = "rule"
        /\ ret[SeqProc].at = now

\* C2: with several rules, a call is denied as soon as any one rule has its
\* num_requests calls recorded less than range_seconds ago, whatever room
\* the other rules leave.
C2_AnyTrippedRuleDenies ==
    [][\A k \in SeqKeys :
        (/\ RateLimitEntity(SeqProc, k)
         /\ block[k] = <<>>
         /\ \E i \in 1..Len(EntityRules(k)) :
                CountSince(k, (now - EntityRules(k)[i][1]) + 1) >= EntityRules(k)[i][2])
        => DeniedStep(SeqProc, k)
      ]_vars

\* C2 witness: a call was denied by the finer rule while the calls recorded
\* within the largest window are fewer than that rule allows.
C2_Witness ==
    \E k \in SeqKeys :
        /\ Len(EntityRules(k)) >= 2
        /\ ret[SeqProc].op = "rate_limit_entity"
        /\ ret[SeqProc].key = k
        /\ ret[SeqProc].cause = "rule"
        /\ ret[SeqProc].at = now
        /\ CountSince(k, now - MaxApiWindow(EntityRules(k))) < MaxApiCalls(EntityRules(k))
        /\ CountSince(k, now - MaxApiWindow(EntityRules(k))) = 2

\* The scenario of C3 on a fresh key with rules [(60, 2)], a call being
\* rate_limit_entity followed by api_calls_left; rem61 is the remaining
\* count expected after the call at t = 61.
ScenarioStep(rem61) ==
    \A k \in SeqKeys :
        LET rle == RateLimitEntity(SeqProc, k)
            acl == ApiCallsLeft(SeqProc, k)
        IN  /\ (rle /\ now = 0 /\ hist[k] = <<>>) => AllowedStep(SeqProc, k)
            /\ (acl /\ now = 0 /\ hist[k] = <<0>>) => ret'[SeqProc].remaining = 1
            /\ (rle /\ now = 1 /\ hist[k] = <<0>>) => AllowedStep(SeqProc, k)
            /\ (acl /\ now = 1 /\ hist[k] = <<0, 1>>) => ret'[SeqProc].remaining = 0
            /\ (rle /\ now = 2 /\ hist[k] = <<0, 1>>) =>
                   DeniedStep(SeqProc, k) /\ ret'[SeqProc].time = 58
            /\ (rle /\ now = 61 /\ hist[k] = <<0, 1>>) => AllowedStep(SeqProc, k)
            /\ (acl /\ now = 61 /\ hist[k] = <<0, 1, 61>>) =>
                   ret'[SeqProc].remaining = rem61
            /\ ExecCommit(SeqProc) => ~ret'[SeqProc].ratelimited

\* C3 as stated: the call at t = 61 leaves remaining = 1.
C3_ScenarioAsStated == [][ScenarioStep(1)]_vars

\* C3 amended: rules [(60, 2)], fresh key.  Call at t=0: allowed, remaining
\* 1.  Call at t=1: allowed, remaining 0.  Call at t=2: denied, wait 58.
\* Call at t=61: allowed, remaining 0, because the call of t=1 still lies in
\* the closed range [61 - 60, 61].  Had the fourth call come at t=62
\* instead, it would be allowed with remaining 1.
C3_ScenarioAmended ==
    [][/\ ScenarioStep(0)
       /\ \A k \in SeqKeys :
            /\ (RateLimitEntity(SeqProc, k) /\ now = 62 /\ hist[k] = <<0, 1>>) =>
                   AllowedStep(SeqProc, k)
            /\ (ApiCallsLeft(SeqProc, k) /\ now = 62 /\ hist[k] = <<0, 1, 62>>) =>
                   ret'[SeqProc].remaining = 1
      ]_vars

\* C3 witness: the calls at 0, 1 and 61 are recorded and api_calls_left has
\* just answered the call at t=61 with remaining 0.
C3_Witness ==
    \E k \in SeqKeys :
        /\ EntityRules(k) = ScenarioRules
        /\ now = 61
        /\ hist[k] = <<0, 1, 61>>
        /\ ret[SeqProc].op = "api_calls_left"
        /\ ret[SeqProc].at = 61
        /\ ret[SeqProc].remaining = 0

\* C4: a call of rate_limit_entity that is_ratelimited denies (block flag or
\* tripped rule) leaves the list, the sorted set, both expiries and the
\* block flag of every key as they were.
C4_DenialRecordsNothing ==
    [][\A p \in Procs : \A k \in Keys :
        (RateLimitEntity(p, k) /\ pc'[p] = "idle") =>
            /\ ret'[p].ratelimited
            /\ ret'[p].cause \in {"block", "rule"}
            /\ UNCHANGED store
      ]_vars

\* C4 witness: a key with recorded calls whose last call was denied by a rule.
C4_Witness ==
    \E k \in SeqKeys :
        /\ list[k] # <<>>
        /\ ret[SeqProc].op = "rate_limit_entity"
        /\ ret[SeqProc].key = k
        /\ ret[SeqProc].ratelimited
        /\ ret[SeqProc].cause = "rule"
        /\ ret[SeqProc].at = now

\* C5 as stated: while the block flag of a key exists, a call of
\* rate_limit_entity on it is denied because of the flag, with
\* 0 < wait <= S, S being the seconds given to block_access, and nothing is
\* evaluated or recorded against a rule.
C5_BlockedWaitInRange ==
    [][\A k \in SeqKeys :
        (RateLimitEntity(SeqProc, k) /\ block[k] # <<>>) =>
            /\ DeniedStep(SeqProc, k)
            /\ ret'[SeqProc].cause = "block"
            /\ 0 < ret'[SeqProc].time
            /\ ret'[SeqProc].time <= blockedFor[k][1]
            /\ UNCHANGED store
      ]_vars

\* The verdict is_ratelimited gives a key that was never blocked, told from
\* the recorded history alone: rule i denies when num_requests calls are
\* recorded at now - range_seconds or later.
HistTripped(k, i) == CountSince(k, now - EntityRules(k)[i][1]) >= EntityRules(k)[i][2]
HistDenied(k) == \E i \in 1..Len(EntityRules(k)) : HistTripped(k, i)
HistFirst(k) == CHOOSE i \in 1..Len(EntityRules(k)) :
                    HistTripped(k, i) /\ \A j \in 1..(i - 1) : ~HistTripped(k, j)
HistWait(k) ==
    LET i == HistFirst(k)
        h == hist[k]
    IN  (h[(Len(h) - EntityRules(k)[i][2]) + 1] + EntityRules(k)[i][1]) - now

\* C6: unblock_access removes the block flag and leaves the list, the sorted
\* set and their expiries alone; the call of rate_limit_entity that follows
\* it gets the verdict, and the wait, that the recorded history alone gives.
C6_UnblockRestoresEvaluation ==
    [][\A k \in SeqKeys :
        /\ UnblockAccess(SeqProc, k) =>
               block'[k] = <<>> /\ UNCHANGED <<list, zset, listExp, zsetExp>>
        /\ (RateLimitEntity(SeqProc, k) /\ blockedFor[k] = <<0>>) =>
               IF HistDenied(k)
               THEN /\ DeniedStep(SeqProc, k)
                    /\ ret'[SeqProc].cause = "rule"
                    /\ ret'[SeqProc].time = HistWait(k)
               ELSE AllowedStep(SeqProc, k)
      ]_vars

\* C6 witness: unblock_access removed a live flag of a key with recorded
\* calls, and the call after it has passed is_ratelimited.
C6_Witness ==
    \E k \in SeqKeys :
        /\ blockedFor[k] = <<0>>
        /\ list[k] # <<>>
        /\ pc[SeqProc] = "incr"
        /\ loc[SeqProc].key = k

\* C7: when incr_ratelimit runs out of retries, rate_limit_entity returns
\* normally with ratelimited = True, and no step of that call (its WATCH
\* reads, its aborted transactions, the failure itself) writes to the store.
C7_LockFailureDenies ==
    [][\A p \in Procs :
        /\ ExecLockFail(p) =>
               /\ pc'[p] = "idle"
               /\ ret'[p].op = "rate_limit_entity"
               /\ ret'[p].ratelimited
               /\ UNCHANGED store
        /\ (ExecRetry(p) \/ Watch(p) \/ IncrBegin(p)) => UNCHANGED store
      ]_vars

\* C7 witness: a call of rate_limit_entity has returned after a locking
\* failure.
C7_Witness ==
    \E p \in Procs : ret[p].op = "rate_limit_entity" /\ ret[p].cause = "lock"

\* The members of the sorted set of k with now - w <= t <= now.
Counted(k, w) == {t \in zset[k] : now - w <= t /\ t <= now}

\* The recorded calls of k with now - w <= t <= now, and whether they all
\* carry different timestamps.
HistIn(k, w) == Since(hist[k], now - w)
Distinct(h) == \A i, j \in 1..Len(h) : i # j => h[i] # h[j]

\* C8: get_api_calls_left returns remaining = max_calls minus the number of
\* timestamps stored in the sorted set with now - window <= t <= now; when
\* the calls of the window carry different timestamps that is max_calls
\* minus the number of calls recorded in the window.
C8_RemainingIsMaxMinusCount ==
    [][\A k \in SeqKeys :
        /\ \A w \in 1..MaxWindow : \A m \in 1..3 :
               GetApiCallsLeft(k, w, m)[1] = m - Cardinality(Counted(k, w))
        /\ ApiCallsLeft(SeqProc, k) =>
               LET W == MaxApiWindow(EntityRules(k))
                   N == MaxApiCalls(EntityRules(k))
               IN  /\ ret'[SeqProc].remaining = N - Cardinality(Counted(k, W))
                   /\ Distinct(HistIn(k, W)) =>
                          ret'[SeqProc].remaining = N - Len(HistIn(k, W))
      ]_vars

\* C8 witness: api_calls_left has just answered for a key with two calls
\* recorded in the window.
C8_Witness ==
    \E k \in SeqKeys :
        /\ ret[SeqProc].op = "api_calls_left"
        /\ ret[SeqProc].at = now
        /\ Cardinality(Counted(k, ret[SeqProc].window)) = 2
        /\ ret[SeqProc].remaining = ret[SeqProc].max_calls - 2

\* C9 as stated: reset_in is 0 when no timestamp is stored, and otherwise
\* window - (now - oldest), oldest being the oldest stored timestamp inside
\* [now - window, now].
C9_ResetFromOldestCounted ==
    [][\A k \in SeqKeys :
        ApiCallsLeft(SeqProc, k) =>
            LET W == MaxApiWindow(EntityRules(k))
                c == Counted(k, W)
                oldest == CHOOSE t \in c : \A u \in c : t <= u
            IN  /\ (list[k] = <<>> /\ zset[k] = {}) => ret'[SeqProc].reset = 0
                /\ c # {} => ret'[SeqProc].reset = W - (now - oldest)
      ]_vars

\* C9 amended: reset_in is 0 when the list of the key is empty, and
\* otherwise window - (now - newest), newest being the head of the list,
\* the timestamp recorded last, whether or not it lies inside the window.
C9_ResetFromNewest ==
    [][\A k \in SeqKeys :
        ApiCallsLeft(SeqProc, k) =>
            LET W == MaxApiWindow(EntityRules(k))
            IN  IF list[k] = <<>>
                THEN ret'[SeqProc].reset = 0
                ELSE /\ ret'[SeqProc].reset = W - (now - list[k][1])
                     /\ hist[k] # <<>> => list[k][1] = hist[k][Len(hist[k])]
      ]_vars

\* C9 witness: api_calls_left has just answered for a key whose list holds
\* two different timestamps, both inside the window.
C9_Witness ==
    \E k \in SeqKeys :
        /\ ret[SeqProc].op = "api_calls_left"
        /\ ret[SeqProc].at = now
        /\ Len(list[k]) >= 2
        /\ list[k][1] # list[k][Len(list[k])]
        /\ list[k][Len(list[k])] >= now - ret[SeqProc].window
        /\ ret[SeqProc].reset = ret[SeqProc].window - (now - list[k][1])

\* C10 as stated: once the oldest recorded call's window is over
\* (oldest timestamp + window < now), get_api_calls_left returns
\* (max_calls, 0).
C10_FullAfterOldestWindow ==
    [][\A k \in SeqKeys :
        (/\ ApiCallsLeft(SeqProc, k)
         /\ list[k] # <<>>
         /\ list[k][Len(list[k])] + MaxApiWindow(EntityRules(k)) < now)
        => /\ ret'[SeqProc].remaining = MaxApiCalls(EntityRules(k))
           /\ ret'[SeqProc].reset = 0
      ]_vars

\* C10 amended: once the newest recorded call's window is over (every
\* recorded timestamp + window < now), get_api_calls_left returns
\* remaining = max_calls; reset_in is 0 once more than window seconds have
\* passed since that call's transaction committed, which is when the keys
\* expire, and until then it is window - (now - newest), which is negative.
C10_FullAfterNewestWindow ==
    [][\A k \in SeqKeys :
        (/\ ApiCallsLeft(SeqProc, k)
         /\ \A i \in 1..Len(hist[k]) : hist[k][i] + MaxApiWindow(EntityRules(k)) < now)
        => /\ ret'[SeqProc].remaining = MaxApiCalls(EntityRules(k))
           /\ IF lastCommit[k] = <<>> \/ lastCommit[k][1] + MaxApiWindow(EntityRules(k)) < now
              THEN ret'[SeqProc].reset = 0
              ELSE /\ list[k] # <<>>
                   /\ ret'[SeqProc].reset < 0
                   /\ ret'[SeqProc].reset = MaxApiWindow(EntityRules(k)) - (now - list[k][1])
      ]_vars

\* C10 witness: calls were recorded, their window is over and the keys have
\* expired, and api_calls_left has just answered (max_calls, 0).
C10_Witness ==
    \E k \in SeqKeys :
        /\ hist[k] # <<>>
        /\ \A i \in 1..Len(hist[k]) : hist[k][i] + MaxApiWindow(EntityRules(k)) < now
        /\ lastCommit[k] # <<>>
        /\ lastCommit[k][1] + MaxApiWindow(EntityRules(k)) < now
        /\ ret[SeqProc].op = "api_calls_left"
        /\ ret[SeqProc].at = now
        /\ ret[SeqProc].remaining = MaxApiCalls(EntityRules(k))
        /\ ret[SeqProc].reset = 0

\* C11: once clear_history(key) has returned, and until a call is recorded
\* or a block set on the key, the three keys are gone, get_api_calls_left
\* returns (max_calls, 0) for every window and max_calls, and a call of
\* rate_limit_entity finds no recorded call and is allowed.
C11_ClearHistoryResets ==
    [][\A k \in SeqKeys :
        /\ (ClearBlock(SeqProc) /\ loc[SeqProc].key = k) =>
               /\ ret'[SeqProc].op = "clear_history"
               /\ list'[k] = <<>> /\ zset'[k] = {} /\ block'[k] = <<>>
        /\ (wiped[k] # <<>> /\ pc[SeqProc] = "idle") =>
               \A w \in 1..MaxWindow : \A m \in 1..3 :
                   GetApiCallsLeft(k, w, m) = <<m, 0>>
        /\ (ApiCallsLeft(SeqProc, k) /\ wiped[k] # <<>>) =>
               /\ ret'[SeqProc].remaining = MaxApiCalls(EntityRules(k))
               /\ ret'[SeqProc].reset = 0
        /\ (RateLimitEntity(SeqProc, k) /\ wiped[k] # <<>>) =>
               /\ list[k] = <<>> /\ zset[k] = {} /\ block[k] = <<>>
               /\ AllowedStep(SeqProc, k)
      ]_vars

\* C11 witness: clear_history ran on a key whose list held two timestamps
\* and whose block flag was set, and api_calls_left has just answered
\* (max_calls, 0), the recorded calls being still inside the window.
C11_Witness ==
    \E k \in SeqKeys :
        /\ wiped[k] # <<>>
        /\ wiped[k][1].len = 2
        /\ wiped[k][1].block # <<>>
        /\ now <= 1
        /\ ret[SeqProc].op = "api_calls_left"
        /\ ret[SeqProc].key = k
        /\ ret[SeqProc].remaining = ret[SeqProc].max_calls
        /\ ret[SeqProc].reset = 0

\* The block flag of k is gone in this step because its expiry is behind
\* the clock.
BlockExpired(k) ==
    /\ now' > now
    /\ block[k] # <<>>
    /\ block[k][1] < now'
    /\ block'[k] = <<>>

C13_RemovesExactMatches ==
    [][\A w \in 1..MaxRuleArg : \A n \in 1..MaxRuleArg : \A d \in DOMAIN rules :
        RemoveRatelimitRule(SeqProc, w, n, d) =>
            rules'[d] = SelectSeq(rules[d], LAMBDA x : x # <<w, n>>)
      ]_vars

\* A rule set is sorted ascending by window.
Sorted(rs) == \A i, j \in 1..Len(rs) : i < j => rs[i][1] <= rs[j][1]

\* C14: starting from a sorted table, every rule set of the table stays
\* sorted ascending by window under add_ratelimit_rule and
\* remove_ratelimit_rule, and each call leaves the rule sets of the other
\* domains as they were; add_ratelimit_rule on a domain the table does not
\* have creates it with the one rule.
C14_SortedAndOnlyTargetDomain ==
    /\ [](\A d \in DOMAIN rules : Sorted(rules[d]))
    /\ [][\A w \in 1..MaxRuleArg : \A n \in 1..MaxRuleArg : \A d \in Domains :
            /\ AddRatelimitRule(SeqProc, w, n, d) =>
                   /\ DOMAIN rules' = DOMAIN rules \cup {d}
                   /\ \A e \in DOMAIN rules \ {d} : rules'[e] = rules[e]
                   /\ d \notin DOMAIN rules => rules'[d] = << <<w, n>> >>
                   /\ \E i \in 1..Len(rules'[d]) : rules'[d][i] = <<w, n>>
            /\ RemoveRatelimitRule(SeqProc, w, n, d) =>
                   /\ DOMAIN rules' = DOMAIN rules
                   /\ \A e \in DOMAIN rules \ {d} : rules'[e] = rules[e]
          ]_vars

\* C14 witness: both domains hold rules, and the rule added last to
\* 'api_by_user' has a smaller window than a rule that was there before it
\* and stands in front of that rule.
C14_Witness ==
    /\ DOMAIN rules = Domains
    /\ rules["email"] # <<>>
    /\ ret[SeqProc].op = "add_ratelimit_rule"
    /\ ret[SeqProc].domain = "api_by_user"
    /\ Len(rules["api_by_user"]) >= 2
    /\ rules["api_by_user"][1] = ret[SeqProc].rule
    /\ rules["api_by_user"][2][1] > ret[SeqProc].rule[1]

\* C15: every RateLimitResult attached to a request by rate_limit_request
\* has, from its construction on and after the later update of remaining and
\* secs_to_freedom, remaining = 0 whenever over_limit is true; the assert of
\* its constructor never fails.
C15_OverLimitHasNoRemaining ==
    \A p \in Procs : \A i \in 1..Len(applied[p]) :
        /\ applied[p][i].asserted
        /\ applied[p][i].over_limit => applied[p][i].remaining = 0

\* C15 witness: a request carries the result of an allowed call, updated to
\* a remaining above 0, and behind it the result of a denied call.
C15_Witness ==
    /\ Len(applied[SeqProc]) = 2
    /\ ~applied[SeqProc][1].over_limit
    /\ applied[SeqProc][1].remaining > 0
    /\ applied[SeqProc][2].over_limit
    /\ applied[SeqProc][2].remaining = 0
    /\ reqpc[SeqProc].at = "none"

\* The largest window of a rule set.
LargestWindow(rs) == CHOOSE w \in {rs[i][1] : i \in 1..Len(rs)} :
                         \A i \in 1..Len(rs) : rs[i][1] <= w

C17_ReadsLeaveStoreAlone ==
    [][\A p \in Procs :
        (\/ \E k \in Keys : RateLimitEntity(p, k)
         \/ \E k \in Keys : ApiCallsLeft(p, k)
         \/ RequestLeft(p))
        => UNCHANGED <<list, zset, listExp, zsetExp, block, dirty>>
      ]_vars

\* C17 witness: get_api_calls_left has just answered on a key that is
\* blocked and whose sorted set holds a timestamp from before the window.
C17_Witness ==
    \E k \in SeqKeys :
        /\ ret[SeqProc].op = "api_calls_left"
        /\ ret[SeqProc].key = k
        /\ ret[SeqProc].at = now
        /\ block[k] # <<>>
        /\ list[k] # <<>>
        /\ \E t \in zset[k] : t < now - ret[SeqProc].window

\* The step is a round trip, or the return, of an operation of p on key a.
StepOn(p, a) ==
    \/ RateLimitEntity(p, a)
    \/ \E s \in 1..MaxBlockSeconds : BlockAccess(p, a, s)
    \/ UnblockAccess(p, a)
    \/ ClearList(p, a)
    \/ /\ loc[p].key = a
       /\ \/ IncrBegin(p) \/ Watch(p) \/ ExecCommit(p) \/ ExecRetry(p)
          \/ ExecLockFail(p) \/ ClearZset(p) \/ ClearBlock(p)

\* The step changes what is stored under key b, the verdict of
\* is_ratelimited on b, or the fate of a transaction open on b.
Touches(b) ==
    \/ list'[b] # list[b] \/ listExp'[b] # listExp[b]
    \/ zset'[b] # zset[b] \/ zsetExp'[b] # zsetExp[b]
    \/ block'[b] # block[b]
    \/ \E q \in Procs : pc[q] = "exec" /\ loc[q].key = b /\ dirty'[q] # dirty[q]
    \/ /\ KeyDomain(b) \in DOMAIN rules
       /\ IsRatelimited(b, EntityRules(b))' # IsRatelimited(b, EntityRules(b))

\* C18: in any interleaving, the list, the sorted set, the block flag and
\* the expiries of a key b, the verdict of is_ratelimited on b and the
\* transactions open on b are changed only by the steps of operations on b
\* itself: a step of rate_limit_entity (with its incr_ratelimit),
\* block_access, unblock_access or clear_history on another key a changes
\* none of them and aborts no transaction on b.
C18_KeysAreIndependent ==
    [][\A b \in Keys : Touches(b) => \E p \in Procs : StepOn(p, b)]_vars

\* C18 witness: the two callers have a transaction open each, on the keys of
\* different users, the second caller after a conflict on its key; the key
\* of the first caller is recorded on and neither transaction is aborted.
C18_Witness ==
    /\ pc["p1"] = "exec" /\ pc["p2"] = "exec"
    /\ loc["p1"].key # loc["p2"].key
    /\ loc["p2"].count >= 1
    /\ ~dirty["p1"] /\ ~dirty["p2"]
    /\ list[loc["p2"].key] # <<>>

\* An override string "seconds:count,seconds:count,...": one or more pairs
\* of decimal numbers, told by reading the string from left to right.  The
\* reader is before a number of seconds (0), inside it (1), before a count
\* (2), inside it (3), or has given up (4).
RECURSIVE ReadOverride(_, _)
ReadOverride(s, at) ==
    IF s = <<>> THEN at
    ELSE LET c == Head(s)
             to == IF c \in DOMAIN DigitValue
                   THEN (IF at = 0 \/ at = 1 THEN 1
                         ELSE IF at = 2 \/ at = 3 THEN 3 ELSE 4)
                   ELSE IF c = ":" /\ at = 1 THEN 2
                   ELSE IF c = "," /\ at = 3 THEN 0
                   ELSE 4
         IN  ReadOverride(Tail(s), to)

WellFormed(s) == ReadOverride(s, 0) = 3

\* The override string that spells a rule set.
RECURSIVE Spelled(_)
Spelled(rs) ==
    IF rs = <<>> THEN <<>>
    ELSE Numeral(rs[1][1]) \o <<":">> \o Numeral(rs[1][2]) \o
         (IF Len(rs) = 1 THEN <<>> ELSE <<",">> \o Spelled(Tail(rs)))

\* What C19 says of rules() on the entities in `keys`: with a non-empty,
\* well-formed override the rule set returned is the one the override
\* spells, pair by pair and in its order, with nothing of the domain's rules
\* in it; with an empty override it is the rule set of the domain.
OverrideReplaces(keys) ==
    \A k \in keys :
        Rules(SeqProc, k) =>
            LET s == rate_limits[KeyUser(k)]
            IN  /\ (s # <<>> /\ WellFormed(s)) =>
                       /\ ret'[SeqProc].raised = ""
                       /\ ret'[SeqProc].rules # <<>>
                       /\ Spelled(ret'[SeqProc].rules) = s
                /\ s = <<>> =>
                       /\ ret'[SeqProc].raised = ""
                       /\ ret'[SeqProc].rules = rules[KeyDomain(k)]

\* C19 as stated: the override replaces the rules of the domain for every
\* domain the entity is bound to.
C19_OverrideReplacesEveryDomain == [][OverrideReplaces(OverrideKeys)]_vars

\* C19 amended: the override replaces the rules of the domain for an entity
\* of 'api_by_user'; for an entity of any other domain rules() returns the
\* rule set of the domain whatever the override string is.
C19_OverrideReplacesApiByUser ==
    [][/\ OverrideReplaces({k \in OverrideKeys : KeyDomain(k) = "api_by_user"})
       /\ \A k \in OverrideKeys :
            (Rules(SeqProc, k) /\ KeyDomain(k) # "api_by_user") =>
                /\ ret'[SeqProc].raised = ""
                /\ ret'[SeqProc].rules = rules[KeyDomain(k)]
      ]_vars

\* C19 witness: rules() has returned the two rules of an override, the
\* larger window first, for the entity of 'api_by_user'.
C19_Witness ==
    /\ ret[SeqProc].op = "rules"
    /\ KeyDomain(ret[SeqProc].key) = "api_by_user"
    /\ ret[SeqProc].raised = ""
    /\ Len(ret[SeqProc].rules) = 2
    /\ ret[SeqProc].rules[1][1] > ret[SeqProc].rules[2][1]
    /\ ret[SeqProc].rules # rules["api_by_user"]

\* What C20 says of the entities in `keys`: with a non-empty override that
\* is not well-formed, rules() raises, rate_limit raises the same error in
\* one step that leaves the store and every open transaction alone, and
\* rate_limit never gets as far as rate_limit_entity.
MalformedFails(keys) ==
    \A k \in keys :
        LET s == rate_limits[KeyUser(k)]
        IN  (s # <<>> /\ ~WellFormed(s)) =>
                /\ pc[SeqProc] = "idle" => ResolveError(k) = "ValueError"
                /\ RateLimitRaises(SeqProc, k) =>
                       /\ ret'[SeqProc].raised = "ValueError"
                       /\ pc'[SeqProc] = "idle"
                       /\ UNCHANGED <<list, zset, listExp, zsetExp, block, dirty>>
                /\ ~RateLimitEntity(SeqProc, k)

\* C20 as stated: a malformed override makes rate_limit fail for every
\* entity of the user.
C20_MalformedFailsEveryDomain == [][MalformedFails(OverrideKeys)]_vars

\* C20 amended: a malformed override makes rate_limit fail, before the store
\* is read or written, for the user's entity of 'api_by_user'; for an entity
\* of any other domain the string is not read and rate_limit runs with the
\* rule set of the domain.
C20_MalformedFailsApiByUser ==
    [][/\ MalformedFails({k \in OverrideKeys : KeyDomain(k) = "api_by_user"})
       /\ \A k \in OverrideKeys :
            (RateLimitEntity(SeqProc, k) /\ KeyDomain(k) # "api_by_user") =>
                /\ pc'[SeqProc] = "incr" =>
                       loc'[SeqProc].rules = rules[KeyDomain(k)]
                /\ ResolveError(k) = ""
      ]_vars

\* C20 witness: with a malformed override, rate_limit on the entity of
\* 'api_by_user' has raised ValueError, after a call recorded for the user's
\* entity of the other domain.
C20_Witness ==
    /\ rate_limits[1] # <<>>
    /\ ~WellFormed(rate_limits[1])
    /\ ret[SeqProc].op = "rate_limit"
    /\ ret[SeqProc].key = Key(1, "api_by_user")
    /\ ret[SeqProc].raised = "ValueError"
    /\ list[Key(1, "email")] # <<>>
    /\ list[Key(1, "api_by_user")] = <<>>

\* C21 as stated: every call of rate_limit_entity that returns a denial,
\* whatever its cause (block flag, tripped rule, locking failure), has
\* emitted exactly one 'ratelimiter.limited.<entity_key>' counter event, and
\* a call that returns allowed has emitted none.
C21_EveryDenialCountedOnce ==
    \A p \in Procs :
        ret[p].op = "rate_limit_entity" =>
            ret[p].statsd = (IF ret[p].ratelimited THEN 1 ELSE 0)

\* The store keys in the sequence ks, as a set.
Range(ks) == {ks[i] : i \in DOMAIN ks}

\* C22: key() gives two entities the same string exactly when they have the
\* same user id and the same domain (injective, and the same for the same
\* pair every time); and under one KEY_PREFIX the three store keys of an
\* entity key differ from each other and from every store key of every other
\* entity key.
C22_KeysInjectiveAndStable ==
    /\ ret[SeqProc].op = "key" =>
           \A u \in UserIds : \A d \in DomainStrings :
               (KeyString(u, d) = ret[SeqProc].key) <=>
                   (u = ret[SeqProc].user_id /\ d = ret[SeqProc].domain)
    /\ ret[SeqProc].op = "get_keys" =>
           /\ Cardinality(Range(ret[SeqProc].keys)) = 3
           /\ \A e \in EntityKeyStrings \ {ret[SeqProc].entity_key} :
                  Range(GetKeys(ret[SeqProc].prefix, e)) \cap
                      Range(ret[SeqProc].keys) = {}

\* C22 witness: under a bounced prefix, get_keys has been called for the key
\* of user 11 and a domain that holds a colon and a digit.
C22_Witness ==
    /\ ret[SeqProc].op = "get_keys"
    /\ ret[SeqProc].prefix # <<>>
    /\ ret[SeqProc].entity_key = KeyString(11, <<":", "1">>)
    /\ KEY_PREFIX = ret[SeqProc].prefix

\* The attempt of the watch/read/transaction sequence that caller p is in:
\* one more than the WatchErrors its loop has caught.
Attempt(p) == loc[p].count + 1

\* C23 as stated: incr_ratelimit makes at most 10 attempts; it raises
\* RateLimiterLockingException when its 10th attempt hits a WATCH conflict
\* and never starts an 11th.
C23_AtMostTenAttempts ==
    /\ [](\A p \in Procs : pc[p] \in {"watch", "exec"} => Attempt(p) <= 10)
    /\ [][\A p \in Procs :
            /\ ExecLockFail(p) => Attempt(p) = 10
            /\ ExecRetry(p) => Attempt(p) < 10
         ]_vars

\* Caller p stands inside incr_ratelimit.
InIncr(p) == pc[p] \in {"incr", "watch", "exec"}

\* C24: under any interleaving of the callers of one key, a call of
\* incr_ratelimit that has begun ends; it ends either with the commit of its
\* transaction, which puts its one timestamp at the head of the list, or
\* with RateLimiterLockingException, which writes nothing (or, for an empty
\* rule set, at once and with nothing stored); a commit ends the call, so no
\* call commits twice.
C24_CallsTerminate ==
    /\ \A p \in Procs : InIncr(p) ~> (pc[p] = "idle")
    /\ [][\A p \in Procs :
            /\ ExecCommit(p) =>
                   /\ pc'[p] = "idle"
                   /\ Head(list'[loc[p].key]) = loc[p].tnow
                   /\ ~ret'[p].ratelimited
            /\ (InIncr(p) /\ pc'[p] = "idle") =>
                   \/ ExecCommit(p)
                   \/ ExecLockFail(p) /\ ret'[p].cause = "lock" /\ UNCHANGED store
                   \/ IncrBegin(p) /\ Len(loc[p].rules) = 0 /\ UNCHANGED store
         ]_vars

\* C24 witness: a call whose transaction was aborted eleven times stands
\* before the EXEC of its twelfth attempt with no write since its WATCH,
\* while the other caller stands inside incr_ratelimit on the same key.
C24_Witness ==
    \E p \in Procs : \E q \in Procs \ {p} :
        /\ pc[p] = "exec" /\ loc[p].count = 11 /\ ~dirty[p]
        /\ InIncr(q) /\ loc[q].key = loc[p].key

\* The largest num_requests of the rules of rs.
LargestMaxCalls(rs) ==
    CHOOSE n \in {rs[i][2] : i \in 1..Len(rs)} :
        \A i \in 1..Len(rs) : rs[i][2] <= n

\* The first n elements of l, or all of l when it has fewer.
FirstN(l, n) == SubSeq(l, 1, IF Len(l) < n THEN Len(l) ELSE n)

\* C25 as stated: a committed record leaves the list as the new timestamp
\* followed by the old list, cut to the largest max_calls of all the rules of
\* the entity's rule set (not to the max_calls of the last rule), so that for
\* every rule (window, n) the n-th most recent timestamp is still in the
\* list.
C25_TrimmedToLargestMaxCalls ==
    [][\A p \in Procs :
        ExecCommit(p) =>
            list'[loc[p].key] =
                FirstN(<<loc[p].tnow>> \o list[loc[p].key],
                       LargestMaxCalls(loc[p].rules))
      ]_vars

\* The timestamps held in the list l.
Stamps(l) == {l[i] : i \in 1..Len(l)}

\* C26 as stated: in every reachable state the sorted set of a key holds
\* exactly the timestamps that its list holds, calls that carry the same
\* timestamp included (the states between the first and the second DEL of a
\* clear_history of the key are left aside).
C26_RangeSetMatchesList ==
    \A k \in Keys :
        (\A p \in Procs : ~(pc[p] = "clear_zset" /\ loc[p].key = k)) =>
            zset[k] = Stamps(list[k])

\* C27: a transaction of incr_ratelimit commits only when no caller wrote to
\* the list since its WATCH.  So, when the list is still there at the EXEC,
\* the element read after the WATCH is the one at index max_api_calls - 1
\* now; the new timestamp followed by the old list is the new list followed
\* by that element (if any), so nothing but the trimmed element leaves the
\* list; and no value but that element's leaves the sorted set.  When the
\* list has expired since the WATCH, the new list is the new timestamp alone.
C27_CommitSeesWatchedList ==
    [][\A p \in Procs :
        ExecCommit(p) =>
            LET k == loc[p].key
                pushed == <<loc[p].tnow>> \o list[k]
            IN  IF list[k] # <<>>
                THEN /\ loc[p].last_val = LIndex(list[k], loc[p].max_api_calls - 1)
                     /\ pushed = list'[k] \o loc[p].last_val
                     /\ (zset[k] \cup {loc[p].tnow}) \ zset'[k]
                            \subseteq Stamps(loc[p].last_val)
                ELSE list'[k] = pushed
      ]_vars

\* C27 witness: a caller whose transaction was aborted by the record of the
\* other caller stands before its EXEC again, with no write since its new
\* WATCH and with the element that its trim will drop read from the list
\* that the other caller left.
C27_Witness ==
    \E p \in Procs :
        /\ pc[p] = "exec" /\ loc[p].count >= 1 /\ ~dirty[p]
        /\ loc[p].last_val # <<>>
        /\ loc[p].last_val = LIndex(list[loc[p].key], loc[p].max_api_calls - 1)
        /\ \E q \in Procs \ {p} :
               ret[q].op = "rate_limit_entity" /\ ~ret[q].ratelimited

\* C28 as stated: in every reachable state, concurrent callers of one key
\* included, the list is most-recent-first: for all indexes i < j,
\* list[i] >= list[j].
C28_ListIsNewestFirst ==
    \A k \in Keys :
        \A i, j \in 1..Len(list[k]) : i < j => list[k][i] >= list[k][j]

\* C29 as stated: every committed record gives the list and the sorted set
\* the expiry now + the largest window of the entity's rule set; the two
\* keys carry the same expiry in every state, and one exists exactly when
\* the other does (the states between the first and the second DEL of a
\* clear_history of the key are left aside).
C29_BothExpireAfterLargestWindow ==
    /\ [](\A k \in Keys :
            (\A p \in Procs : ~(pc[p] = "clear_zset" /\ loc[p].key = k)) =>
                /\ listExp[k] = zsetExp[k]
                /\ (list[k] = <<>>) <=> (zset[k] = {}))
    /\ [][\A p \in Procs :
            ExecCommit(p) =>
                /\ listExp'[loc[p].key] = <<now + LargestWindow(loc[p].rules)>>
                /\ zsetExp'[loc[p].key] = <<now + LargestWindow(loc[p].rules)>>
         ]_vars

\* The history h of recorded calls breaks a rule of rs: for some rule (W, N)
\* more than N of its timestamps lie within W seconds of one another.
OvershootIn(h, rs) ==
    \E r \in 1..Len(rs) : \E a \in 1..Len(h) :
        Cardinality({i \in 1..Len(h) : h[a] <= h[i] /\ h[i] <= h[a] + rs[r][1]})
            > rs[r][2]

\* C30: more than N recorded calls within one window of W seconds come about
\* only when calls of rate_limit_entity on the key overlapped, one beginning
\* between the check and the record of another; as long as the calls on a
\* key follow one another, its history breaks no rule.
C30_OvershootOnlyWhenCallsOverlap ==
    \A k \in ConcKeys :
        OvershootIn(hist[k], EntityRules(k)) => overlapped[k]

\* C30 witness: with a rule (W, N) two callers have both been let through
\* and have both recorded, and the key holds N + 1 calls of one window.
C30_Witness ==
    \E k \in ConcKeys :
        /\ Len(EntityRules(k)) = 1
        /\ Len(hist[k]) = EntityRules(k)[1][2] + 1
        /\ OvershootIn(hist[k], EntityRules(k))
        /\ \A p \in Procs :
               /\ ret[p].op = "rate_limit_entity"
               /\ ret[p].key = k
               /\ ~ret[p].ratelimited

\* C31: on a key without block flag the rules are looked at in rule-set
\* order.  Rule (window, n) denies exactly when the n-th most recent recorded
\* call exists and its timestamp + window >= now; the call is denied when
\* some rule denies, with the wait timestamp + window - now of the first
\* such rule in order, whatever the later rules give; it is let through when
\* no rule denies.
C31_FirstTrippedRuleDecides ==
    [][\A k \in SeqKeys :
        (RateLimitEntity(SeqProc, k) /\ block[k] = <<>>) =>
            IF HistDenied(k)
            THEN /\ DeniedStep(SeqProc, k)
                 /\ ret'[SeqProc].cause = "rule"
                 /\ ret'[SeqProc].time = HistWait(k)
            ELSE AllowedStep(SeqProc, k)
      ]_vars

\* C31 witness: a call was denied while both rules of the rule set denied,
\* and the wait reported is the one of the first rule, which is not the one
\* of the second.
C31_Witness ==
    \E k \in SeqKeys :
        /\ Len(EntityRules(k)) = 2
        /\ ret[SeqProc].op = "rate_limit_entity"
        /\ ret[SeqProc].key = k
        /\ ret[SeqProc].cause = "rule"
        /\ ret[SeqProc].at = now
        /\ HistTripped(k, 1) /\ HistTripped(k, 2)
        /\ ret[SeqProc].time = HistWait(k)
        /\ ret[SeqProc].time #
               (hist[k][(Len(hist[k]) - EntityRules(k)[2][2]) + 1]
                    + EntityRules(k)[2][1]) - now

\* C32: a key without block flag gets one only in a step of block_access on
\* that key; no step of rate_limit_entity (a denial and a locking failure
\* included), of incr_ratelimit, of get_api_calls_left, of clear_history or
\* of unblock_access sets the flag.
C32_OnlyBlockAccessBlocks ==
    [][\A k \in Keys :
        (block[k] = <<>> /\ block'[k] # <<>>) =>
            \E p \in Procs : \E s \in 1..MaxBlockSeconds : BlockAccess(p, k, s)
      ]_vars

\* C32 witness: a key that was blocked and unblocked has no block flag after
\* a call on it has ended with a locking failure, while the other caller has
\* been denied by a rule.
C32_Witness ==
    \E k \in ConcKeys : \E p \in Procs : \E q \in Procs \ {p} :
        /\ block[k] = <<>>
        /\ blockedFor[k] = <<0>>
        /\ ret[p].op = "rate_limit_entity" /\ ret[p].key = k /\ ret[p].cause = "lock"
        /\ ret[q].op = "rate_limit_entity" /\ ret[q].key = k /\ ret[q].cause = "rule"

\* The rule (range_seconds, num_requests) denies on the list stored for k.
Trips(k, rule) ==
    /\ Len(list[k]) >= rule[2]
    /\ list[k][rule[2]] + rule[1] >= now

\* The first rule of rs that denies on the list stored for k.
FirstOf(k, rs) ==
    CHOOSE i \in 1..Len(rs) :
        Trips(k, rs[i]) /\ \A j \in 1..(i - 1) : ~Trips(k, rs[j])

Mutated(p) == ret[p].op \in {"add_ratelimit_rule", "remove_ratelimit_rule"}

\* C33: a step of add_ratelimit_rule or remove_ratelimit_rule leaves the list,
\* the sorted set, the block flag and the expiry times of every key (and the
\* clock, hence every TTL) as they were; and the call of rate_limit_entity
\* that comes next is decided by the rule set of the table as it is after the
\* change, applied to the list that is stored.
C33_MutationLeavesHistory ==
    [][/\ \A x \in EditRules : \A d \in Domains :
            (\/ AddRatelimitRule(SeqProc, x[1], x[2], d)
             \/ RemoveRatelimitRule(SeqProc, x[1], x[2], d))
                => UNCHANGED <<store, now>>
       /\ \A k \in SeqKeys :
            (RateLimitEntity(SeqProc, k) /\ Mutated(SeqProc) /\ block[k] = <<>>) =>
                LET rs == rules[KeyDomain(k)]
                IN  IF \E i \in 1..Len(rs) : Trips(k, rs[i])
                    THEN /\ DeniedStep(SeqProc, k)
                         /\ ret'[SeqProc].time =
                                (list[k][rs[FirstOf(k, rs)][2]] + rs[FirstOf(k, rs)][1]) - now
                    ELSE /\ AllowedStep(SeqProc, k)
                         /\ loc'[SeqProc].rules = rs
      ]_vars

\* C33 witness: two calls were recorded, and the table was then edited down
\* to the one rule (2, 1), under which a commit leaves one element in the
\* list; the call after the edits is denied by that rule on the newest of
\* the two elements still stored.
C33_Witness ==
    \E k \in SeqKeys :
        /\ rules[KeyDomain(k)] = << <<2, 1>> >>
        /\ Len(list[k]) = 2
        /\ ret[SeqProc].op = "rate_limit_entity"
        /\ ret[SeqProc].key = k
        /\ ret[SeqProc].cause = "rule"
        /\ ret[SeqProc].at = now
        /\ ret[SeqProc].time = (list[k][1] + 2) - now

\* C34 as stated: the rule set that a call has handed to the backend, which
\* is what rules() returned for the entity, from the table or from the
\* override string of its user, is sorted ascending by window, so that its
\* last rule has the largest window.
C34_RuleSetsSorted ==
    \A p \in Procs :
        pc[p] \in {"incr", "watch", "exec"} =>
            /\ Sorted(loc[p].rules)
            /\ loc[p].max_api_window = LargestWindow(loc[p].rules)

\* C35 as stated: every denied verdict that rate_limit_entity has returned,
\* whether a rule denied the call or the record ran into the locking
\* failure, carries a wait above 0.
C35_DeniedWaitPositive ==
    \A p \in Procs :
        (ret[p].op = "rate_limit_entity" /\ ret[p].ratelimited) => ret[p].time > 0

\* C36 as stated: the remaining count that api_calls_left has returned for
\* the last rule of the entity's rule set is at least 0 and at most the
\* max_calls of that rule, whatever calls and edits of the rule table came
\* before.
C36_RemainingInRange ==
    \A p \in Procs :
        ret[p].op = "api_calls_left" =>
            /\ 0 <= ret[p].remaining
            /\ ret[p].remaining <= ret[p].max_calls

\* Every call recorded for k began more than the largest window of the rule
\* set of k ago.  It holds when no call was made on k for longer than that
\* window, since a call records no timestamp later than its own end.
Idle(k) ==
    \A i \in 1..Len(hist[k]) : hist[k][i] + LargestWindow(EntityRules(k)) < now

\* C37: a call of rate_limit_entity on a key that has no block flag (it was
\* never set, was removed or has expired) and on which no call was made for
\* longer than the largest window of its rule set is allowed, whatever
\* denials came before.
C37_IdleEntityIsAllowed ==
    [][\A k \in SeqKeys :
        (RateLimitEntity(SeqProc, k) /\ block[k] = <<>> /\ Idle(k)) =>
            AllowedStep(SeqProc, k)
      ]_vars

\* C37 witness: a key that was blocked and whose list still holds as many
\* timestamps as its last rule allows, all of them older than the largest
\* window, has its call allowed.
C37_Witness ==
    \E k \in SeqKeys :
        /\ pc[SeqProc] = "incr"
        /\ loc[SeqProc].key = k
        /\ loc[SeqProc].at = now
        /\ block[k] = <<>>
        /\ blockedFor[k] # <<>>
        /\ Len(list[k]) = MaxApiCalls(EntityRules(k))
        /\ hist[k] # <<>>
        /\ Idle(k)

\* The one line the request of ret[p] must be answered with.
PolicyAnswer(r) ==
    IF "recipient" \notin DOMAIN r.input_dict THEN "DUNNO"
    ELSE IF r.missed = "True" THEN "DUNNO"
    ELSE IF r.validation = "ZulipEmailForwardError" \/ r.limit = "RateLimited"
    THEN "REJECT"
    ELSE "DUNNO"

\* C38: gotPostfixRequest has sent exactly one action for every request:
\* DUNNO for a request without recipient and for a missed-message address,
\* for which the rate limit was not checked, REJECT when the validation of
\* the address failed or the realm was rate limited, DUNNO otherwise.
C38_OneActionPerRequest ==
    \A p \in Procs :
        ret[p].op = "gotPostfixRequest" =>
            /\ ret[p].sent = << <<"action", PolicyAnswer(ret[p])>> >>
            /\ ("recipient" \notin DOMAIN ret[p].input_dict \/ ret[p].missed = "True")
                   => ret[p].limit = "unknown"

\* C38 witness: one connection has rejected a request because the realm was
\* rate limited, the other has answered a missed-message address with DUNNO
\* without a rate-limit check.
C38_Witness ==
    \E p \in Procs : \E q \in Procs \ {p} :
        /\ ret[p].op = "gotPostfixRequest"
        /\ ret[p].limit = "RateLimited"
        /\ ret[p].sent = << <<"action", "REJECT">> >>
        /\ ret[q].op = "gotPostfixRequest"
        /\ ret[q].missed = "True"
        /\ ret[q].limit = "unknown"
        /\ ret[q].sent = << <<"action", "DUNNO">> >>

\* C39: called with the empty rule set on a key without block flag,
\* is_ratelimited answers (False, 0.0), and incr_ratelimit returns with list,
\* sorted set, block flag and expiry times as they were, so that
\* rate_limit_entity returns (False, 0.0); called with the empty rule set on
\* a key with a block flag, rate_limit_entity denies because of the flag.
C39_EmptyRuleSet ==
    [][\A k \in SeqKeys :
        /\ \A c \in 1..MaxRuleArg : \A w \in 1..MaxRuleArg :
             BackendRateLimitEntity(SeqProc, k, <<>>, c, w) =>
                IF block[k] = <<>>
                THEN /\ pc'[SeqProc] = "incr"
                     /\ loc'[SeqProc].time = 0
                ELSE /\ pc'[SeqProc] = "idle"
                     /\ ret'[SeqProc].op = "rate_limit_entity"
                     /\ ret'[SeqProc].ratelimited
                     /\ ret'[SeqProc].cause = "block"
        /\ (/\ pc[SeqProc] = "incr"
            /\ loc[SeqProc].key = k
            /\ loc[SeqProc].rules = <<>>
            /\ pc'[SeqProc] # "incr") =>
                /\ pc'[SeqProc] = "idle"
                /\ UNCHANGED store
                /\ ret'[SeqProc].op = "rate_limit_entity"
                /\ ~ret'[SeqProc].ratelimited
                /\ ret'[SeqProc].time = 0
      ]_vars

\* C39 witness: a call has returned allowed with wait 0 while the list holds
\* a timestamp older than the start of the call under which the rule (2, 1)
\* denies, so the call came with the empty rule set; the key had been blocked
\* and unblocked before.
C39_Witness ==
    \E k \in SeqKeys :
        /\ ret[SeqProc].op = "rate_limit_entity"
        /\ ret[SeqProc].key = k
        /\ ~ret[SeqProc].ratelimited
        /\ ret[SeqProc].time = 0
        /\ ret[SeqProc].at = now
        /\ list[k] # <<>>
        /\ list[k][1] < now
        /\ list[k][1] + 2 >= now
        /\ zset[k] # {}
        /\ block[k] = <<>>
        /\ blockedFor[k] = <<0>>

====
